---- MODULE Spec2Model ----
(***************************************************************************)
(* The Day18 in-memory vector stores: SimpleVectorStore                    *)
(* (src/Day18/simple_vector_store.py) and ImprovedVectorStore              *)
(* (src/Day18/improved_search.py).                                         *)
(*                                                                         *)
(* A text is a sequence of one-character strings.  A term-frequency weight *)
(* count/total is a reduced fraction <<n, d>>; two weights are the same    *)
(* float exactly when they are the same reduced fraction (one correctly    *)
(* rounded division).  A score is kept symbolically (the square of the     *)
(* cosine and the keyword overlap, both reduced fractions) and compared    *)
(* exactly, so that a tie in the model is a tie of the real-valued score.  *)
(***************************************************************************)
EXTENDS Integers, Sequences, FiniteSets, TLC

(***************************************************************************)
(* Bounds of the model.                                                    *)
(***************************************************************************)
MaxDocs == 3
MaxK == 4
MaxNegK == 2

(***************************************************************************)
(* Characters: str.lower(), str.isalnum(), the whitespace of str.split().  *)
(***************************************************************************)
UpperCase == <<"A","B","C","D","E","F","G","H","I","J","K","L","M",
               "N","O","P","Q","R","S","T","U","V","W","X","Y","Z">>

LowerCase == <<"a","b","c","d","e","f","g","h","i","j","k","l","m",
               "n","o","p","q","r","s","t","u","v","w","x","y","z">>

DigitChars == <<"0","1","2","3","4","5","6","7","8","9">>

Whitespace == {" ", "\t", "\n", "\r"}

Range(f) == {f[i] : i \in DOMAIN f}

AlnumChars == Range(UpperCase) \cup Range(LowerCase) \cup Range(DigitChars)

isalnum(c) == c \in AlnumChars

LowerOf ==
    [c \in Range(UpperCase) |->
        LowerCase[CHOOSE i \in DOMAIN UpperCase : UpperCase[i] = c]]

lowerChar(c) == IF c \in DOMAIN LowerOf THEN LowerOf[c] ELSE c

\* text[lo..hi] with every character lowered
RECURSIVE lowerRange(_, _, _)
lowerRange(text, lo, hi) ==
    IF lo > hi THEN <<>>
    ELSE IF lo = hi THEN <<lowerChar(text[lo])>>
    ELSE LET mid == (lo + hi) \div 2
         IN  lowerRange(text, lo, mid) \o lowerRange(text, mid + 1, hi)

lower(text) == lowerRange(text, 1, Len(text))

\* str.split(): the maximal runs of non-whitespace characters, in order.
\* One character of the scan: white space ends the word under way.
splitStep(state, c) ==
    IF c \in Whitespace
    THEN [words |-> IF state.cur # <<>> THEN Append(state.words, state.cur)
                    ELSE state.words,
          cur |-> <<>>]
    ELSE [words |-> state.words, cur |-> Append(state.cur, c)]

\* The scan over text[lo..hi], left to right, from the given state: the first
\* half, then the second half from the state the first half ends in.
RECURSIVE splitLoop(_, _, _, _)
splitLoop(text, lo, hi, state) ==
    IF lo > hi THEN state
    ELSE IF lo = hi THEN splitStep(state, text[lo])
    ELSE LET mid == (lo + hi) \div 2
         IN  CHOOSE final \in {splitLoop(text, mid + 1, hi, first) :
                                   first \in {splitLoop(text, lo, mid, state)}} : TRUE

splitFrom(text, i, words, cur) ==
    LET state == splitLoop(text, i, Len(text), [words |-> words, cur |-> cur])
    IN  IF state.cur # <<>> THEN Append(state.words, state.cur) ELSE state.words

split(text) == splitFrom(text, 1, <<>>, <<>>)

\* Variant of cleanWord: the word is kept as it is.
cleanWordUnchanged(word) == word

\* ''.join(c for c in word if c.isalnum())
cleanWord(word) == SelectSeq(word, isalnum)

(***************************************************************************)
(* Reduced fractions.                                                      *)
(***************************************************************************)
RECURSIVE GCD(_, _)
GCD(a, b) == IF b = 0 THEN a ELSE GCD(b, a % b)

Frac(n, d) == IF n = 0 THEN <<0, 1>> ELSE <<n \div GCD(n, d), d \div GCD(n, d)>>

FZero == <<0, 1>>

FOne == <<1, 1>>

FAdd(x, y) == Frac(x[1] * y[2] + y[1] * x[2], x[2] * y[2])

FMul(x, y) == Frac(x[1] * y[1], x[2] * y[2])

FDiv(x, y) == Frac(x[1] * y[2], x[2] * y[1])

FLess(x, y) == x[1] * y[2] < y[1] * x[2]

\* sum(f[w] * g[w] for w in S)
RECURSIVE SumProducts(_, _, _)
SumProducts(f, g, S) ==
    IF S = {} THEN FZero
    ELSE LET w == CHOOSE w \in S : TRUE
         IN  FAdd(FMul(f[w], g[w]), SumProducts(f, g, S \ {w}))

(***************************************************************************)
(* ImprovedVectorStore: tokenizer and vectorizer.                          *)
(***************************************************************************)
stop_words ==
    { <<"t","h","e">>, <<"a">>, <<"a","n">>, <<"a","n","d">>, <<"o","r">>,
      <<"b","u","t">>, <<"i","n">>, <<"o","n">>, <<"a","t">>, <<"t","o">>,
      <<"f","o","r">>, <<"o","f">>, <<"w","i","t","h">>, <<"b","y">>,
      <<"i","s">>, <<"a","r","e">>, <<"w","a","s">>, <<"w","e","r","e">>,
      <<"b","e">>, <<"b","e","e","n">>, <<"h","a","v","e">>, <<"h","a","s">>,
      <<"h","a","d">>, <<"d","o">>, <<"d","o","e","s">>, <<"d","i","d">>,
      <<"w","i","l","l">>, <<"w","o","u","l","d">>, <<"c","o","u","l","d">>,
      <<"s","h","o","u","l","d">>, <<"t","h","i","s">>, <<"t","h","a","t">>,
      <<"t","h","e","s","e">>, <<"t","h","o","s","e">>, <<"i","t">>,
      <<"i","t","s">>, <<"a","s">>, <<"c","a","n">>, <<"f","r","o","m">> }

\* The character loop of preprocess_text: maximal alphanumeric runs.
\* The body of the loop: for char in text
extractStep(state, char) ==
    IF isalnum(char)
    THEN [words |-> state.words, current_word |-> Append(state.current_word, char)]
    ELSE [words |-> IF state.current_word # <<>>
                    THEN Append(state.words, state.current_word)
                    ELSE state.words,
          current_word |-> <<>>]

\* The loop over text[lo..hi], left to right, from the given state: the first
\* half, then the second half from the state the first half ends in.
RECURSIVE extractLoop(_, _, _, _)
extractLoop(text, lo, hi, state) ==
    IF lo > hi THEN state
    ELSE IF lo = hi THEN extractStep(state, text[lo])
    ELSE LET mid == (lo + hi) \div 2
         IN  CHOOSE final \in {extractLoop(text, mid + 1, hi, first) :
                                   first \in {extractLoop(text, lo, mid, state)}} : TRUE

extractWords(text, i, words, current_word) ==
    LET state == extractLoop(text, i, Len(text),
                             [words |-> words, current_word |-> current_word])
    IN  IF state.current_word # <<>> THEN Append(state.words, state.current_word)
        ELSE state.words

\* Variant of meaningful: words of three characters are dropped too.
meaningfulLonger(word) == Len(word) > 3 /\ word \notin stop_words

meaningful(word) == Len(word) > 2 /\ word \notin stop_words

\* Variant of preprocess_text: every word of the text is kept.
preprocess_text_unfiltered(text) ==
    extractWords(lower(text), 1, <<>>, <<>>)

preprocess_text(text) ==
    SelectSeq(extractWords(lower(text), 1, <<>>, <<>>), meaningful)

(***************************************************************************)
(* SimpleVectorStore: the words that create_word_vector counts.            *)
(***************************************************************************)
longEnough(word) == word # <<>> /\ Len(word) > 2

simple_words(text) ==
    LET words == split(lower(text))
    IN  SelectSeq([i \in DOMAIN words |-> cleanWord(words[i])], longEnough)

(***************************************************************************)
(* create_word_vector of either class: term -> count / total.              *)
(***************************************************************************)
countOf(words, w) == Cardinality({i \in DOMAIN words : words[i] = w})

NoTerms == [w \in {} |-> FZero]

RECURSIVE tfOver(_, _)
tfOver(words, terms) ==
    IF terms = {} THEN NoTerms
    ELSE LET w == CHOOSE w \in terms : TRUE
         IN  (w :> Frac(countOf(words, w), Len(words))) @@ tfOver(words, terms \ {w})

\* Variant of tfVector: the counts are not divided by the number of words.
RECURSIVE countsOver(_, _)
countsOver(words, terms) ==
    IF terms = {} THEN NoTerms
    ELSE LET w == CHOOSE w \in terms : TRUE
         IN  (w :> Frac(countOf(words, w), 1)) @@ countsOver(words, terms \ {w})

tfVectorCounts(words) == countsOver(words, Range(words))

tfVector(words) == tfOver(words, Range(words))

tokens(variant, text) ==
    IF variant = "improved" THEN preprocess_text(text) ELSE simple_words(text)

create_word_vector(variant, text) == tfVector(tokens(variant, text))

(***************************************************************************)
(* cosine_similarity of either class.  The value returned by the code is   *)
(* dot / (mag1 * mag2) with mag = sqrt(sum of squares); the model returns  *)
(* its square dot^2 / (sum1 * sum2), a fraction, the cosine being the      *)
(* non-negative root (weights are never negative).                         *)
(***************************************************************************)
cosine_similarity(vec1, vec2) ==
    LET common_words == DOMAIN vec1 \cap DOMAIN vec2
        dot_product  == SumProducts(vec1, vec2, common_words)
        sq1 == SumProducts(vec1, vec1, DOMAIN vec1)
        sq2 == SumProducts(vec2, vec2, DOMAIN vec2)
    IN  IF common_words = {} THEN FZero
        ELSE IF sq1 = FZero \/ sq2 = FZero THEN FZero
        ELSE FDiv(FMul(dot_product, dot_product), FMul(sq1, sq2))

\* Variant of keyword_overlap_score: the overlap is divided by the length of
\* the list of query words.
keyword_overlap_score_by_list_length(query_words, doc_text) ==
    LET doc_words       == Range(preprocess_text(doc_text))
        query_words_set == Range(query_words)
        overlap         == Cardinality(query_words_set \cap doc_words)
    IN  IF query_words_set # {} THEN Frac(overlap, Len(query_words))
        ELSE FZero

\* ImprovedVectorStore.keyword_overlap_score
keyword_overlap_score(query_words, doc_text) ==
    LET doc_words       == Range(preprocess_text(doc_text))
        query_words_set == Range(query_words)
        overlap         == Cardinality(query_words_set \cap doc_words)
    IN  IF query_words_set # {} THEN Frac(overlap, Cardinality(query_words_set))
        ELSE FZero

(***************************************************************************)
(* Scores.  A score stands for (wcos * sqrt(cos2) + wover * overlap) / 10: *)
(* the cosine alone in SimpleVectorStore, 0.7 * cosine + 0.3 * overlap in  *)
(* ImprovedVectorStore.                                                    *)
(***************************************************************************)
CosineTenths == 7

OverlapTenths == 3

simple_score(query_vector, doc_vector) ==
    [cos2 |-> cosine_similarity(query_vector, doc_vector),
     overlap |-> FZero, wcos |-> 10, wover |-> 0]

combined_score(query_vector, query_words, doc_vector, doc_text) ==
    [cos2 |-> cosine_similarity(query_vector, doc_vector),
     overlap |-> keyword_overlap_score(query_words, doc_text),
     wcos |-> CosineTenths, wover |-> OverlapTenths]

IsZeroScore(s) == (s.wcos = 0 \/ s.cos2 = FZero) /\ (s.wover = 0 \/ s.overlap = FZero)

\* a/b < c/d for a, c >= 0 and b, d > 0, by the continued-fraction expansion
\* (no product is formed, so no 32-bit overflow).
RECURSIVE LessFrac(_, _, _, _)
LessFrac(a, b, c, d) ==
    IF a \div b # c \div d THEN a \div b < c \div d
    ELSE IF c % d = 0 THEN FALSE
    ELSE IF a % b = 0 THEN TRUE
    ELSE LessFrac(d, c % d, b, a % b)

\* sqrt(a) - sqrt(b) > c for fractions a, b >= 0 and any fraction c.
\* With P = a + b - c^2 = pn / (ad*bd*cd^2):  P^2 ? 4ab  is
\* pn^2 ? (2*cd^2)^2 * (an*ad) * (bn*bd).
SqrtDiffGreater(a, b, c) ==
    LET cd2 == c[2] * c[2]
        pn  == a[1] * b[2] * cd2 + b[1] * a[2] * cd2 - c[1] * c[1] * a[2] * b[2]
        w   == 2 * cd2
        m   == a[1] * a[2]
        n   == b[1] * b[2]
        absp == IF pn < 0 THEN 0 - pn ELSE pn
        \* pn^2 > w^2 * m * n
        SqGreater == IF pn = 0 THEN FALSE
                     ELSE IF m = 0 \/ n = 0 THEN TRUE
                     ELSE LessFrac(w * n, absp, absp, w * m)
        \* pn^2 >= w^2 * m * n
        SqAtLeast == IF m = 0 \/ n = 0 THEN TRUE
                     ELSE IF pn = 0 THEN FALSE
                     ELSE ~ LessFrac(absp, w * m, w * n, absp)
    IN  IF c[1] = 0 THEN FLess(b, a)
        ELSE IF c[1] > 0 THEN FLess(b, a) /\ pn > 0 /\ SqGreater
        ELSE ~ (FLess(a, b) /\ pn >= 0 /\ SqAtLeast)

\* s > t as floats compare in the tuple sort: the real values of the scores.
ScoreGreater(s, t) ==
    IF s.wover = 0 /\ t.wover = 0 THEN FLess(t.cos2, s.cos2)
    ELSE \* wcos*sqrt(s.cos2) + wover*s.overlap > wcos*sqrt(t.cos2) + wover*t.overlap
         SqrtDiffGreater(s.cos2, t.cos2,
             Frac(s.wover * (t.overlap[1] * s.overlap[2] - s.overlap[1] * t.overlap[2]),
                  s.wcos * t.overlap[2] * s.overlap[2]))

ScoreEqual(s, t) == ~ ScoreGreater(s, t) /\ ~ ScoreGreater(t, s)

(***************************************************************************)
(* similarities.sort(reverse=True) on (score, idx) tuples, and the slice   *)
(* similarities[:k].                                                       *)
(***************************************************************************)
\* Python tuple order: the first differing component decides.
\* Variant of TupleGreater: equal scores ordered by ascending idx.
TupleGreaterAscendingIds(p, q) ==
    IF ScoreGreater(p[1], q[1]) THEN TRUE
    ELSE IF ScoreGreater(q[1], p[1]) THEN FALSE
    ELSE p[2] < q[2]

TupleGreater(p, q) ==
    IF ScoreGreater(p[1], q[1]) THEN TRUE
    ELSE IF ScoreGreater(q[1], p[1]) THEN FALSE
    ELSE p[2] > q[2]

\* The place of p in a list that is already in descending order.
RECURSIVE insertDescending(_, _)
insertDescending(sorted, p) ==
    IF sorted = <<>> THEN <<p>>
    ELSE IF TupleGreater(p, Head(sorted)) THEN <<p>> \o sorted
    ELSE <<Head(sorted)>> \o insertDescending(Tail(sorted), p)

\* Variants of sortReverse: sort() without reverse=True, and no sort at all.
RECURSIVE insertAscending(_, _)
insertAscending(sorted, p) ==
    IF sorted = <<>> THEN <<p>>
    ELSE IF ScoreGreater(Head(sorted)[1], p[1])
            \/ (~ ScoreGreater(p[1], Head(sorted)[1]) /\ Head(sorted)[2] > p[2])
         THEN <<p>> \o sorted
    ELSE <<Head(sorted)>> \o insertAscending(Tail(sorted), p)

RECURSIVE sortAscending(_)
sortAscending(pairs) ==
    IF pairs = <<>> THEN <<>>
    ELSE insertAscending(sortAscending(Tail(pairs)), Head(pairs))

sortNone(pairs) == pairs

\* list.sort(reverse=True): the list in descending tuple order.
RECURSIVE sortReverse(_)
sortReverse(pairs) ==
    IF pairs = <<>> THEN <<>>
    ELSE insertDescending(sortReverse(Tail(pairs)), Head(pairs))

\* Variants of slice: seq[:k + 1], and a slice that is empty for negative k.
sliceOneMore(seq, k) ==
    IF k >= 0 THEN SubSeq(seq, 1, IF k + 1 < Len(seq) THEN k + 1 ELSE Len(seq))
    ELSE SubSeq(seq, 1, IF Len(seq) + k > 0 THEN Len(seq) + k ELSE 0)

sliceNoNegative(seq, k) ==
    IF k >= 0 THEN SubSeq(seq, 1, IF k < Len(seq) THEN k ELSE Len(seq))
    ELSE <<>>

\* seq[:k], for any integer k
slice(seq, k) ==
    IF k >= 0 THEN SubSeq(seq, 1, IF k < Len(seq) THEN k ELSE Len(seq))
    ELSE SubSeq(seq, 1, IF Len(seq) + k > 0 THEN Len(seq) + k ELSE 0)

(***************************************************************************)
(* JSON object keys: json.dump writes the int key i as str(i), load reads  *)
(* it back with int(k).                                                    *)
(***************************************************************************)
RECURSIVE IntToStr(_)
IntToStr(n) ==
    IF n < 10 THEN <<DigitChars[n + 1]>>
    ELSE IntToStr(n \div 10) \o <<DigitChars[(n % 10) + 1]>>

isDigit(c) == c \in Range(DigitChars)

digitValue(c) == (CHOOSE i \in DOMAIN DigitChars : DigitChars[i] = c) - 1

RECURSIVE strip(_)
strip(s) ==
    IF s = <<>> THEN s
    ELSE IF s[1] \in Whitespace THEN strip(Tail(s))
    ELSE IF s[Len(s)] \in Whitespace THEN strip(SubSeq(s, 1, Len(s) - 1))
    ELSE s

unsigned(s) == IF s # <<>> /\ s[1] \in {"+", "-"} THEN Tail(s) ELSE s

\* int(k) accepts: optional blanks, optional sign, digits with single
\* underscores between them.
isIntLiteral(k) ==
    LET d == unsigned(strip(k))
    IN  /\ d # <<>>
        /\ isDigit(d[1]) /\ isDigit(d[Len(d)])
        /\ \A i \in DOMAIN d : isDigit(d[i]) \/ d[i] = "_"
        /\ \A i \in 1..(Len(d) - 1) : ~ (d[i] = "_" /\ d[i + 1] = "_")

RECURSIVE digitsValue(_)
digitsValue(d) ==
    IF d = <<>> THEN 0
    ELSE 10 * digitsValue(SubSeq(d, 1, Len(d) - 1)) + digitValue(d[Len(d)])

StrToInt(k) ==
    LET t == strip(k)
        v == digitsValue(SelectSeq(unsigned(t), isDigit))
    IN  IF t[1] = "-" THEN 0 - v ELSE v

\* json.dump of self.word_vectors: {str(i): vector}
dumpVectors(wv) ==
    [key \in {IntToStr(i) : i \in DOMAIN wv} |->
        wv[CHOOSE i \in DOMAIN wv : IntToStr(i) = key]]

\* {int(k): v for k, v in data['word_vectors'].items()}
\* (keys that denote the same integer collapse to one entry)
loadVectors(obj) ==
    [i \in {StrToInt(key) : key \in DOMAIN obj} |->
        obj[CHOOSE key \in DOMAIN obj : StrToInt(key) = i]]

(***************************************************************************)
(* Natural numbers of any size, as little-endian sequences of limbs in     *)
(* 0 .. Base - 1 without leading zero limbs (<<>> is 0): the 53-bit        *)
(* significands of Python floats and their exact products and quotients.   *)
(***************************************************************************)
Base == 32768

LimbBits == 15

RECURSIVE BNorm(_)
BNorm(x) ==
    IF x # <<>> /\ x[Len(x)] = 0 THEN BNorm(SubSeq(x, 1, Len(x) - 1)) ELSE x

RECURSIVE BFromInt(_)
BFromInt(n) == IF n = 0 THEN <<>> ELSE <<n % Base>> \o BFromInt(n \div Base)

RECURSIVE BAddFrom(_, _, _, _)
BAddFrom(x, y, i, carry) ==
    IF i > Len(x) /\ i > Len(y) THEN (IF carry = 0 THEN <<>> ELSE <<carry>>)
    ELSE LET s == (IF i <= Len(x) THEN x[i] ELSE 0)
                  + (IF i <= Len(y) THEN y[i] ELSE 0) + carry
         IN  <<s % Base>> \o BAddFrom(x, y, i + 1, s \div Base)

BAdd(x, y) == BAddFrom(x, y, 1, 0)

\* x - y for x >= y
RECURSIVE BSubFrom(_, _, _, _)
BSubFrom(x, y, i, borrow) ==
    IF i > Len(x) THEN <<>>
    ELSE LET s == x[i] - (IF i <= Len(y) THEN y[i] ELSE 0) - borrow
         IN  IF s < 0 THEN <<s + Base>> \o BSubFrom(x, y, i + 1, 1)
                      ELSE <<s>> \o BSubFrom(x, y, i + 1, 0)

BSub(x, y) == BNorm(BSubFrom(x, y, 1, 0))

RECURSIVE BLessFrom(_, _, _)
BLessFrom(x, y, i) ==
    IF i = 0 THEN FALSE
    ELSE IF x[i] # y[i] THEN x[i] < y[i]
    ELSE BLessFrom(x, y, i - 1)

BLess(x, y) ==
    IF Len(x) # Len(y) THEN Len(x) < Len(y) ELSE BLessFrom(x, y, Len(x))

\* x * s for 0 <= s < Base
RECURSIVE BMulSmallFrom(_, _, _, _)
BMulSmallFrom(x, s, i, carry) ==
    IF i > Len(x) THEN (IF carry = 0 THEN <<>> ELSE <<carry>>)
    ELSE LET p == x[i] * s + carry
         IN  <<p % Base>> \o BMulSmallFrom(x, s, i + 1, p \div Base)

BMulSmall(x, s) == IF s = 0 THEN <<>> ELSE BMulSmallFrom(x, s, 1, 0)

RECURSIVE BMulFrom(_, _, _)
BMulFrom(x, y, i) ==
    IF i > Len(y) THEN <<>>
    ELSE BAdd(BMulSmall(x, y[i]), 
              LET rest == BMulFrom(x, y, i + 1)
              IN  IF rest = <<>> THEN <<>> ELSE <<0>> \o rest)

BMul(x, y) == IF x = <<>> THEN <<>> ELSE BMulFrom(x, y, 1)

\* floor(x / s) for 0 < s <= Base, from the top limb down
RECURSIVE BDivSmallFrom(_, _, _, _)
BDivSmallFrom(x, s, i, rem) ==
    IF i = 0 THEN <<>>
    ELSE LET cur == rem * Base + x[i]
         IN  Append(BDivSmallFrom(x, s, i - 1, cur % s), cur \div s)

BDivSmall(x, s) == BNorm(BDivSmallFrom(x, s, Len(x), 0))

RECURSIVE Pow2(_)
Pow2(k) == IF k = 0 THEN 1 ELSE 2 * Pow2(k - 1)

RECURSIVE BitLen(_)
BitLen(n) == IF n = 0 THEN 0 ELSE 1 + BitLen(n \div 2)

BBitLen(x) == IF x = <<>> THEN 0 ELSE LimbBits * (Len(x) - 1) + BitLen(x[Len(x)])

RECURSIVE Zeros(_)
Zeros(n) == IF n = 0 THEN <<>> ELSE <<0>> \o Zeros(n - 1)

\* x * 2^s
BShl(x, s) ==
    IF x = <<>> THEN <<>>
    ELSE Zeros(s \div LimbBits) \o BMulSmall(x, Pow2(s % LimbBits))

\* floor(x / 2^s)
BShr(x, s) ==
    IF s \div LimbBits >= Len(x) THEN <<>>
    ELSE BDivSmall(SubSeq(x, (s \div LimbBits) + 1, Len(x)), Pow2(s % LimbBits))

BIsOdd(x) == x # <<>> /\ x[1] % 2 = 1

\* Long division n / d for a divisor whose top limb is at least Base / 2:
\* the limbs of n are brought down from the top; each quotient limb is
\* estimated from the two top limbs of the running remainder (never too
\* small, at most 2 too large) and corrected downwards.
RECURSIVE BQuotientLimb(_, _, _)
BQuotientLimb(rem, d, qhat) ==
    IF BLess(rem, BMulSmall(d, qhat)) THEN BQuotientLimb(rem, d, qhat - 1) ELSE qhat

BEstimate(rem, d) ==
    LET n   == Len(d)
        hi  == IF Len(rem) > n THEN rem[n + 1] ELSE 0
        lo  == IF Len(rem) >= n THEN rem[n] ELSE 0
        est == (hi * Base + lo) \div d[n]
    IN  IF est > Base - 1 THEN Base - 1 ELSE est

\* <<quotient, remainder>> of the top limbs i .. Len(n) of n by d
RECURSIVE BDivModFrom(_, _, _)
BDivModFrom(n, d, i) ==
    IF i > Len(n) THEN <<(<<>>), (<<>>)>>
    ELSE LET up  == BDivModFrom(n, d, i + 1)
             rem == BNorm(<<n[i]>> \o up[2])
             q   == BQuotientLimb(rem, d, BEstimate(rem, d))
         IN  << <<q>> \o up[1], BSub(rem, BMulSmall(d, q)) >>

\* <<floor(n / d), n mod d # 0>> for any d > 0
BDivMod(n, d) ==
    LET s  == LimbBits - BitLen(d[Len(d)])
        qr == BDivModFrom(BShl(n, s), BShl(d, s), 1)
    IN  <<BNorm(qr[1]), qr[2] # <<>> >>

\* floor(sqrt(n)) by Newton's iteration from an estimate that is not too small
RECURSIVE BSqrtFrom(_, _)
BSqrtFrom(n, x) ==
    LET y == BShr(BAdd(x, BDivMod(n, x)[1]), 1)
    IN  IF BLess(y, x) THEN BSqrtFrom(n, y) ELSE x

BSqrt(n) ==
    IF n = <<>> THEN <<>> ELSE BSqrtFrom(n, BShl(<<1>>, (BBitLen(n) + 1) \div 2))

(***************************************************************************)
(* Python floats (IEEE 754 binary64) that are zero or positive: the value  *)
(* of [m, e] is m * 2^e with 2^52 <= m < 2^53, and 0.0 has m = <<>>.  Each *)
(* operation returns the float nearest to the exact result, ties to the    *)
(* even significand.  The exponents of the model stay far from the limits  *)
(* of the format.                                                          *)
(***************************************************************************)
SignificandBits == 53

FloatZero == [m |-> <<>>, e |-> 0]

\* The float nearest to n * 2^e; sticky: the exact value lies strictly
\* between n * 2^e and (n + 1) * 2^e (n then has more than 53 bits).
RoundFloat(n, e, sticky) ==
    IF n = <<>> THEN FloatZero
    ELSE LET len == BBitLen(n)
         IN  IF len <= SignificandBits
             THEN [m |-> BShl(n, SignificandBits - len),
                   e |-> e - (SignificandBits - len)]
             ELSE LET s    == len - SignificandBits
                      q    == BShr(n, s)
                      r    == BSub(n, BShl(q, s))
                      half == BShl(<<1>>, s - 1)
                      up   == BLess(half, r) \/ (r = half /\ (sticky \/ BIsOdd(q)))
                      m    == IF up THEN BAdd(q, <<1>>) ELSE q
                  IN  IF BBitLen(m) > SignificandBits
                      THEN [m |-> BShr(m, 1), e |-> e + s + 1]
                      ELSE [m |-> m, e |-> e + s]

\* float(n) for an int n >= 0
FloatOfInt(n) == RoundFloat(BFromInt(n), 0, FALSE)

FloatOne == FloatOfInt(1)

\* x * y
FloatMul(x, y) ==
    IF x.m = <<>> \/ y.m = <<>> THEN FloatZero
    ELSE RoundFloat(BMul(x.m, y.m), x.e + y.e, FALSE)

\* x + y
FloatAdd(x, y) ==
    IF x.m = <<>> THEN y
    ELSE IF y.m = <<>> THEN x
    ELSE LET e == IF x.e < y.e THEN x.e ELSE y.e
         IN  RoundFloat(BAdd(BShl(x.m, x.e - e), BShl(y.m, y.e - e)), e, FALSE)

\* x / y for y # 0.0: the quotient of the significands to 55 or 56 bits
FloatDiv(x, y) ==
    IF x.m = <<>> THEN FloatZero
    ELSE LET qr == BDivMod(BShl(x.m, SignificandBits + 2), y.m)
         IN  RoundFloat(qr[1], x.e - y.e - (SignificandBits + 2), qr[2])

\* math.sqrt(x): the root of the significand to 55 bits
FloatSqrt(x) ==
    IF x.m = <<>> THEN FloatZero
    ELSE LET shift == IF x.e % 2 = 0 THEN SignificandBits + 3
                                     ELSE SignificandBits + 4
             n     == BShl(x.m, shift)
             root  == BSqrt(n)
         IN  RoundFloat(root, (x.e - shift) \div 2, BMul(root, root) # n)

\* x < y
FloatLess(x, y) ==
    IF y.m = <<>> THEN FALSE
    ELSE IF x.m = <<>> THEN TRUE
    ELSE IF x.e # y.e THEN x.e < y.e
    ELSE BLess(x.m, y.m)

(***************************************************************************)
(* The vectors and similarities as the interpreter computes them, in       *)
(* floats.  A dict is the sequence of its <<key, value>> items in          *)
(* insertion order, the order in which values() is summed.  A set of str   *)
(* is iterated in an order that depends on the hash seed of the process:   *)
(* the order in which the shared words are summed is an argument.          *)
(***************************************************************************)
\* The keys of the dict filled by "for word in words", in insertion order.
RECURSIVE dictKeys(_, _)
dictKeys(words, n) ==
    IF n = 0 THEN <<>>
    ELSE LET keys == dictKeys(words, n - 1)
         IN  IF words[n] \in Range(keys) THEN keys ELSE Append(keys, words[n])

\* vector[word] = vector[word] / total_words, for each key in turn
RECURSIVE normalize(_, _, _)
normalize(words, keys, n) ==
    IF n = 0 THEN <<>>
    ELSE Append(normalize(words, keys, n - 1),
                <<keys[n], FloatDiv(FloatOfInt(countOf(words, keys[n])),
                                    FloatOfInt(Len(words)))>>)

\* create_word_vector of either class, as a dict of floats
word_vector_items(variant, text) ==
    LET words == tokens(variant, text)
        keys  == dictKeys(words, Len(words))
    IN  normalize(words, keys, Len(keys))

keysOf(vec) == {vec[i][1] : i \in DOMAIN vec}

valueOf(vec, word) == vec[CHOOSE i \in DOMAIN vec : vec[i][1] = word][2]

\* sum(val**2 for val in vec.values()), from the int 0
RECURSIVE sumSquares(_, _)
sumSquares(vec, n) ==
    IF n = 0 THEN FloatZero
    ELSE FloatAdd(sumSquares(vec, n - 1), FloatMul(vec[n][2], vec[n][2]))

\* sum(vec1[word] * vec2[word] for word in common_words), the set being
\* iterated in the given order
RECURSIVE sumProductsInOrder(_, _, _, _)
sumProductsInOrder(vec1, vec2, order, n) ==
    IF n = 0 THEN FloatZero
    ELSE FloatAdd(sumProductsInOrder(vec1, vec2, order, n - 1),
                  FloatMul(valueOf(vec1, order[n]), valueOf(vec2, order[n])))

\* The orders in which a set can be iterated.
IterationOrders(S) ==
    {order \in [1..Cardinality(S) -> S] : \A w \in S : \E i \in DOMAIN order : order[i] = w}

\* Variant of float_cosine_similarity: both magnitudes are taken over the
\* shared words only.
float_cosine_similarity_common_magnitudes(vec1, vec2, order) ==
    LET common_words == keysOf(vec1) \cap keysOf(vec2)
        dot_product  == sumProductsInOrder(vec1, vec2, order, Len(order))
        mag1 == FloatSqrt(sumProductsInOrder(vec1, vec1, order, Len(order)))
        mag2 == FloatSqrt(sumProductsInOrder(vec2, vec2, order, Len(order)))
    IN  IF common_words = {} THEN FloatZero
        ELSE IF mag1 = FloatZero \/ mag2 = FloatZero THEN FloatZero
        ELSE FloatDiv(dot_product, FloatMul(mag1, mag2))

\* Variant of float_cosine_similarity: the square roots are left out.
float_cosine_similarity_no_sqrt(vec1, vec2, order) ==
    LET common_words == keysOf(vec1) \cap keysOf(vec2)
        dot_product  == sumProductsInOrder(vec1, vec2, order, Len(order))
        mag1 == sumSquares(vec1, Len(vec1))
        mag2 == sumSquares(vec2, Len(vec2))
    IN  IF common_words = {} THEN FloatZero
        ELSE IF mag1 = FloatZero \/ mag2 = FloatZero THEN FloatZero
        ELSE FloatDiv(dot_product, FloatMul(mag1, mag2))

\* Variant of float_cosine_similarity: the first magnitude is used twice.
float_cosine_similarity_first_magnitude(vec1, vec2, order) ==
    LET common_words == keysOf(vec1) \cap keysOf(vec2)
        dot_product  == sumProductsInOrder(vec1, vec2, order, Len(order))
        mag1 == FloatSqrt(sumSquares(vec1, Len(vec1)))
        mag2 == FloatSqrt(sumSquares(vec2, Len(vec2)))
    IN  IF common_words = {} THEN FloatZero
        ELSE IF mag1 = FloatZero \/ mag2 = FloatZero THEN FloatZero
        ELSE FloatDiv(dot_product, FloatMul(mag1, mag1))

\* cosine_similarity of either class; order: an iteration order of
\* common_words
float_cosine_similarity(vec1, vec2, order) ==
    LET common_words == keysOf(vec1) \cap keysOf(vec2)
        dot_product  == sumProductsInOrder(vec1, vec2, order, Len(order))
        mag1 == FloatSqrt(sumSquares(vec1, Len(vec1)))
        mag2 == FloatSqrt(sumSquares(vec2, Len(vec2)))
    IN  IF common_words = {} THEN FloatZero
        ELSE IF mag1 = FloatZero \/ mag2 = FloatZero THEN FloatZero
        ELSE FloatDiv(dot_product, FloatMul(mag1, mag2))

\* overlap / len(query_words_set) if query_words_set else 0.0
float_keyword_overlap_score(query_words, doc_text) ==
    LET doc_words       == Range(preprocess_text(doc_text))
        query_words_set == Range(query_words)
        overlap         == Cardinality(query_words_set \cap doc_words)
    IN  IF query_words_set # {}
        THEN FloatDiv(FloatOfInt(overlap), FloatOfInt(Cardinality(query_words_set)))
        ELSE FloatZero

\* The literal 0.7 (0.3): the float nearest to 7/10 (3/10).
FloatTenths(n) == FloatDiv(FloatOfInt(n), FloatOfInt(10))

\* 0.7 * cosine_sim + 0.3 * keyword_overlap
float_combined_score(cosine_sim, keyword_overlap) ==
    FloatAdd(FloatMul(FloatTenths(CosineTenths), cosine_sim),
             FloatMul(FloatTenths(OverlapTenths), keyword_overlap))

(***************************************************************************)
(* Inputs.                                                                 *)
(***************************************************************************)
\* "Cat dog"
TextCatDog ==
    <<"C","a","t"," ","d","o","g">>

\* "cat-dog cat"
TextHyphen ==
    <<"c","a","t","-","d","o","g"," ","c","a","t">>

\* "the of"
TextStop ==
    <<"t","h","e"," ","o","f">>

\* ""
QueryEmpty ==
    <<>>

\* "an of!"
QueryNoTokens ==
    <<"a","n"," ","o","f","!">>

\* "cat"
QueryCat ==
    <<"c","a","t">>

\* "the dog"
QueryTheDog ==
    <<"t","h","e"," ","d","o","g">>

\* "Dog CAT cat"
QueryMixed ==
    <<"D","o","g"," ","C","A","T"," ","c","a","t">>

\* Documents to add: a text and the metadata argument, which is None (the
\* default) or a dict, written as a set of <<key, value>>.
AddInputs ==
    { [text |-> TextCatDog, metadata |-> [given |-> FALSE, dict |-> {}]],
      [text |-> TextHyphen, metadata |-> [given |-> TRUE,
                                          dict |-> {<<"filename", "b.txt">>}]],
      [text |-> TextStop,   metadata |-> [given |-> TRUE,
                                          dict |-> {<<"filename", "c.txt">>}]] }

Queries == {QueryEmpty, QueryNoTokens, QueryCat, QueryTheDog, QueryMixed}

Ks == (0 - MaxNegK)..MaxK

Variants == {"simple", "improved"}

(***************************************************************************)
(* State.                                                                  *)
(*   variant       the class of the store object                          *)
(*   documents, metadata, word_vectors   its three attributes; position i  *)
(*                 of a TLA+ sequence is the Python index i - 1            *)
(*   file          the JSON file that save writes and load reads           *)
(*   last          the last call: its arguments and how it ended           *)
(*   inserted      history: the add_document calls behind the contents     *)
(*   saved         history: the store as it was when it wrote the file     *)
(***************************************************************************)
VARIABLES variant, documents, metadata, word_vectors, file, last, inserted, saved

vars == <<variant, documents, metadata, word_vectors, file, last, inserted, saved>>

NoVectors == [i \in {} |-> <<>>]

AllKeys == {"documents", "metadata", "word_vectors"}

NoFile ==
    [exists |-> FALSE, keys |-> {}, documents |-> <<>>, metadata |-> <<>>,
     word_vectors |-> NoVectors]

NotSaved ==
    [valid |-> FALSE, documents |-> <<>>, metadata |-> <<>>,
     word_vectors |-> NoVectors, inserted |-> <<>>]

\* The record of a call; before is len(self.documents) when it was made.
Call(op, outcome) ==
    [op |-> op, outcome |-> outcome, before |-> Len(documents), query |-> <<>>,
     k |-> 0, text |-> <<>>, query_vector |-> NoTerms, similarities |-> <<>>,
     results |-> <<>>]

Init ==
    /\ variant \in Variants
    /\ documents = <<>>
    /\ metadata = <<>>
    /\ word_vectors = NoVectors
    /\ file = NoFile
    /\ last = [op |-> "init", outcome |-> "ok", before |-> 0, query |-> <<>>,
               k |-> 0, text |-> <<>>, query_vector |-> NoTerms,
               similarities |-> <<>>, results |-> <<>>]
    /\ inserted = <<>>
    /\ saved = NotSaved

\* __init__ of a new store object of the same class; the file stays on disk.
Construct ==
    /\ documents' = <<>>
    /\ metadata' = <<>>
    /\ word_vectors' = NoVectors
    /\ inserted' = <<>>
    /\ last' = [Call("init", "ok") EXCEPT !.before = 0]
    /\ UNCHANGED <<variant, file, saved>>

\* Variant of add_document: the vector is filed under len(self.documents).
add_document_key_off_by_one(text, meta) ==
    LET md     == IF meta.given THEN meta.dict ELSE {}
        vector == create_word_vector(variant, text)
        docs   == Append(documents, text)
        id     == Len(docs)
    IN  /\ Len(documents) < MaxDocs /\ Len(metadata) < MaxDocs
        /\ documents' = docs
        /\ metadata' = Append(metadata, md)
        /\ word_vectors' = [i \in DOMAIN word_vectors \cup {id} |->
                               IF i = id THEN vector ELSE word_vectors[i]]
        /\ inserted' = Append(inserted, [text |-> text, metadata |-> md])
        /\ last' = [Call("add_document", "ok") EXCEPT !.text = text]
        /\ UNCHANGED <<variant, file, saved>>

\* Variant of add_document: a text already stored is not stored again.
add_document_dedup(text, meta) ==
    LET md     == IF meta.given THEN meta.dict ELSE {}
        vector == create_word_vector(variant, text)
        docs   == Append(documents, text)
        id     == Len(docs) - 1
    IN  /\ Len(documents) < MaxDocs /\ Len(metadata) < MaxDocs
        /\ last' = [Call("add_document", "ok") EXCEPT !.text = text]
        /\ UNCHANGED <<variant, file, saved>>
        /\ IF text \in Range(documents)
           THEN UNCHANGED <<documents, metadata, word_vectors, inserted>>
           ELSE /\ documents' = docs
                /\ metadata' = Append(metadata, md)
                /\ word_vectors' = [i \in DOMAIN word_vectors \cup {id} |->
                                       IF i = id THEN vector ELSE word_vectors[i]]
                /\ inserted' = Append(inserted, [text |-> text, metadata |-> md])

\* add_document(text, metadata=None)
add_document(text, meta) ==
    LET md     == IF meta.given THEN meta.dict ELSE {}
        vector == create_word_vector(variant, text)
        docs   == Append(documents, text)
        id     == Len(docs) - 1
    IN  /\ Len(documents) < MaxDocs /\ Len(metadata) < MaxDocs
        /\ Len(inserted) < MaxDocs
        /\ documents' = docs
        /\ metadata' = Append(metadata, md)
        /\ word_vectors' = [i \in DOMAIN word_vectors \cup {id} |->
                               IF i = id THEN vector ELSE word_vectors[i]]
        /\ inserted' = Append(inserted, [text |-> text, metadata |-> md])
        /\ last' = [Call("add_document", "ok") EXCEPT !.text = text]
        /\ UNCHANGED <<variant, file, saved>>

AddDocument == \E a \in AddInputs : add_document(a.text, a.metadata)

\* The score of document idx (0-based) in the loop of search, per class.
scoreOf(query_vector, query_words, idx) ==
    IF variant = "improved"
    THEN combined_score(query_vector, query_words,
                        word_vectors[idx], documents[idx + 1])
    ELSE simple_score(query_vector, word_vectors[idx])

\* Variant of scoreLoop: the loop starts at idx 1.
RECURSIVE scoreLoopFromOne(_, _, _)
scoreLoopFromOne(query_vector, query_words, n) ==
    IF n <= 1 THEN <<>>
    ELSE Append(scoreLoopFromOne(query_vector, query_words, n - 1),
                <<scoreOf(query_vector, query_words, n - 1), n - 1>>)

\* for idx in range(n): similarities.append((score, idx))
RECURSIVE scoreLoop(_, _, _)
scoreLoop(query_vector, query_words, n) ==
    IF n = 0 THEN <<>>
    ELSE Append(scoreLoop(query_vector, query_words, n - 1),
                <<scoreOf(query_vector, query_words, n - 1), n - 1>>)

\* The sorted (score, idx) list of search, when every idx has a vector.
similaritiesOf(query) ==
    LET words == tokens(variant, query)
    IN  sortReverse(scoreLoop(tfVector(words), words, Len(documents)))

\* search(query, k)
search(query, k) ==
    /\ UNCHANGED <<variant, documents, metadata, word_vectors, file, inserted, saved>>
    /\ \E called \in {[Call("search", "ok") EXCEPT
                           !.query = query, !.k = k,
                           !.query_vector = create_word_vector(variant, query)]} :
         IF \E idx \in 0..(Len(documents) - 1) : idx \notin DOMAIN word_vectors
         THEN \* doc_vector = self.word_vectors[idx]
              last' = [called EXCEPT !.outcome = "KeyError"]
         ELSE \E top \in {slice(similaritiesOf(query), k)} :
              IF \E j \in DOMAIN top : top[j][2] + 1 > Len(metadata)
              THEN \* self.metadata[idx]
                   last' = [called EXCEPT !.outcome = "IndexError"]
              ELSE last' = [called EXCEPT
                               !.similarities = top,
                               !.results = [j \in DOMAIN top |->
                                   <<documents[top[j][2] + 1], top[j][1],
                                     metadata[top[j][2] + 1]>>]]

Search == \E query \in Queries, k \in Ks : search(query, k)

\* SimpleVectorStore.save
Save ==
    /\ variant = "simple"
    /\ file' = [exists |-> TRUE, keys |-> AllKeys, documents |-> documents,
                metadata |-> metadata, word_vectors |-> dumpVectors(word_vectors)]
    /\ saved' = [valid |-> TRUE, documents |-> documents, metadata |-> metadata,
                 word_vectors |-> word_vectors, inserted |-> inserted]
    /\ last' = Call("save", "ok")
    /\ UNCHANGED <<variant, documents, metadata, word_vectors, inserted>>

\* How far load gets on the file: the number of its three assignments that
\* complete, and the way the call ends.
loadProgress(f) ==
    IF ~ f.exists                     THEN <<0, "FileNotFoundError">>
    ELSE IF "documents" \notin f.keys THEN <<0, "KeyError">>
    ELSE IF "metadata" \notin f.keys  THEN <<1, "KeyError">>
    ELSE IF "word_vectors" \notin f.keys THEN <<2, "KeyError">>
    ELSE IF \E key \in DOMAIN f.word_vectors : ~ isIntLiteral(key)
                                      THEN <<2, "ValueError">>
    ELSE <<3, "ok">>

\* Variant of Load: the data of the file is added to what the store holds.
LoadMerge ==
    /\ variant = "simple"
    /\ \E p \in {loadProgress(file)} :
         /\ documents' = IF p[1] >= 1 THEN documents \o file.documents ELSE documents
         /\ metadata' = IF p[1] >= 2 THEN metadata \o file.metadata ELSE metadata
         /\ word_vectors' = IF p[1] >= 3
                            THEN loadVectors(file.word_vectors) @@ word_vectors
                            ELSE word_vectors
         /\ inserted' = IF p[1] >= 3 THEN saved.inserted ELSE inserted
         /\ last' = Call("load", p[2])
    /\ UNCHANGED <<variant, file, saved>>

\* SimpleVectorStore.load: open and parse the file, then
\*   self.documents = ...; self.metadata = ...; self.word_vectors = ...
Load ==
    /\ variant = "simple"
    /\ \E p \in {loadProgress(file)} :
         /\ documents' = IF p[1] >= 1 THEN file.documents ELSE documents
         /\ metadata' = IF p[1] >= 2 THEN file.metadata ELSE metadata
         /\ word_vectors' = IF p[1] >= 3 THEN loadVectors(file.word_vectors)
                                         ELSE word_vectors
         /\ inserted' = IF p[1] >= 3 THEN saved.inserted ELSE inserted
         /\ last' = Call("load", p[2])
    /\ UNCHANGED <<variant, file, saved>>

(***************************************************************************)
(* Spec: one store object of either class, built and queried.              *)
(***************************************************************************)
Next == Construct \/ AddDocument \/ Search

Spec == Init /\ [][Next]_vars

(***************************************************************************)
(* SpecPersist: a SimpleVectorStore with its file; the file is written by  *)
(* save only.                                                              *)
(***************************************************************************)
InitSimple == Init /\ variant = "simple"

PersistQueries == {QueryCat}

PersistKs == {1, MaxK}

SearchSome == \E query \in PersistQueries, k \in PersistKs : search(query, k)

NextPersist == Construct \/ AddDocument \/ SearchSome \/ Save \/ Load

SpecPersist == InitSimple /\ [][NextPersist]_vars

(***************************************************************************)
(* SpecIO: as SpecPersist, and the file may also hold data that save did   *)
(* not write.                                                              *)
(***************************************************************************)
\* {"documents": ["the of"]}
FileDocumentsOnly ==
    [exists |-> TRUE, keys |-> {"documents"}, documents |-> <<TextStop>>,
     metadata |-> <<>>, word_vectors |-> NoVectors]

\* {"documents": ["the of"], "metadata": [{}]}
FileNoVectors ==
    [exists |-> TRUE, keys |-> {"documents", "metadata"},
     documents |-> <<TextStop>>, metadata |-> <<{}>>, word_vectors |-> NoVectors]

\* {"documents": ["the of"], "metadata": [{}], "word_vectors": {"x": {"the": 1.0}}}
FileBadKey ==
    [exists |-> TRUE, keys |-> AllKeys,
     documents |-> <<TextStop>>, metadata |-> <<{}>>,
     word_vectors |-> (<<"x">> :> (<<"t","h","e">> :> FOne))]

\* {"metadata": [{}]}
FileNoDocuments ==
    [exists |-> TRUE, keys |-> {"metadata"}, documents |-> <<>>,
     metadata |-> <<{}>>, word_vectors |-> NoVectors]

ExternalFiles == {FileDocumentsOnly, FileNoVectors, FileBadKey, FileNoDocuments}

WriteFile ==
    /\ \E f \in ExternalFiles : file' = f
    /\ saved' = NotSaved
    /\ last' = Call("write_file", "ok")
    /\ UNCHANGED <<variant, documents, metadata, word_vectors, inserted>>

NextIO == NextPersist \/ WriteFile

SpecIO == InitSimple /\ [][NextIO]_vars

(***************************************************************************)
(* SpecScenario: either store fed with the three documents of the first    *)
(* example scenario, in any order, and asked the scenario's query.         *)
(***************************************************************************)
\* "Artificial Intelligence is transforming technology"
DocA ==
    <<"A","r","t","i","f","i","c","i","a","l"," ","I","n","t","e","l","l",
      "i","g","e","n","c","e"," ","i","s"," ","t","r","a","n","s","f","o",
      "r","m","i","n","g"," ","t","e","c","h","n","o","l","o","g","y">>

\* "Cooking pasta with tomato sauce"
DocB ==
    <<"C","o","o","k","i","n","g"," ","p","a","s","t","a"," ","w","i","t",
      "h"," ","t","o","m","a","t","o"," ","s","a","u","c","e">>

\* "Machine learning uses neural networks"
DocC ==
    <<"M","a","c","h","i","n","e"," ","l","e","a","r","n","i","n","g"," ",
      "u","s","e","s"," ","n","e","u","r","a","l"," ","n","e","t","w","o",
      "r","k","s">>

\* "Tell me about AI and machine learning"
ScenarioQuery ==
    <<"T","e","l","l"," ","m","e"," ","a","b","o","u","t"," ","A","I"," ",
      "a","n","d"," ","m","a","c","h","i","n","e"," ","l","e","a","r","n",
      "i","n","g">>

ScenarioTexts == {DocA, DocB, DocC}

AddScenarioDocument ==
    \E text \in ScenarioTexts : add_document(text, [given |-> FALSE, dict |-> {}])

SearchScenario == \E k \in Ks : search(ScenarioQuery, k)

NextScenario == Construct \/ AddScenarioDocument \/ SearchScenario

SpecScenario == Init /\ [][NextScenario]_vars

(***************************************************************************)
(* SpecFloat: the arithmetic of one scoring step of search, in floats.     *)
(* The query and the document are texts over three words, each word up to  *)
(* MaxCount times; their vectors are built, their cosine similarity is     *)
(* computed in either argument order, and the score that search would      *)
(* return for the document is formed.                                      *)
(***************************************************************************)
MaxCount == 2

CountedWords == << <<"c","a","t">>, <<"d","o","g">>, <<"f","o","x">> >>

RECURSIVE repeated(_, _)
repeated(word, n) == IF n = 0 THEN <<>> ELSE word \o <<" ">> \o repeated(word, n - 1)

\* "cat " * c[1] + "dog " * c[2] + "fox " * c[3]
CountedText(c) ==
    repeated(CountedWords[1], c[1]) \o repeated(CountedWords[2], c[2])
        \o repeated(CountedWords[3], c[3])

CountedTexts == {CountedText(c) : c \in [1..3 -> 0..MaxCount]}

FloatCall(op, query, text) ==
    [op |-> op, query |-> query, text |-> text,
     query_vector |-> <<>>, doc_vector |-> <<>>,
     cosine_sim |-> FloatZero, swapped |-> FloatZero, score |-> FloatZero]

InitFloat ==
    /\ variant \in Variants
    /\ documents = <<>>
    /\ metadata = <<>>
    /\ word_vectors = NoVectors
    /\ file = NoFile
    /\ inserted = <<>>
    /\ saved = NotSaved
    /\ \E query \in CountedTexts, text \in CountedTexts :
          last = FloatCall("arguments", query, text)

\* query_vector = self.create_word_vector(query) in search, and
\* vector = self.create_word_vector(text) in add_document
CreateWordVectors ==
    /\ last.op = "arguments"
    /\ last' = [last EXCEPT !.op = "create_word_vector",
                            !.query_vector = word_vector_items(variant, last.query),
                            !.doc_vector = word_vector_items(variant, last.text)]
    /\ UNCHANGED <<variant, documents, metadata, word_vectors, file, inserted, saved>>

\* self.cosine_similarity(query_vector, doc_vector)
CosineSimilarity ==
    /\ last.op = "create_word_vector"
    /\ \E order \in IterationOrders(keysOf(last.query_vector) \cap keysOf(last.doc_vector)) :
          last' = [last EXCEPT !.op = "cosine_similarity",
                               !.cosine_sim = float_cosine_similarity(
                                   last.query_vector, last.doc_vector, order)]
    /\ UNCHANGED <<variant, documents, metadata, word_vectors, file, inserted, saved>>

\* self.cosine_similarity(doc_vector, query_vector): a second call, with the
\* arguments exchanged
CosineSimilaritySwapped ==
    /\ last.op = "cosine_similarity"
    /\ \E order \in IterationOrders(keysOf(last.doc_vector) \cap keysOf(last.query_vector)) :
          last' = [last EXCEPT !.op = "cosine_similarity_swapped",
                               !.swapped = float_cosine_similarity(
                                   last.doc_vector, last.query_vector, order)]
    /\ UNCHANGED <<variant, documents, metadata, word_vectors, file, inserted, saved>>

\* The score that search appends for the document: the cosine similarity in
\* SimpleVectorStore, the combined score in ImprovedVectorStore.
SearchScore ==
    /\ last.op = "cosine_similarity"
    /\ last' = [last EXCEPT
                  !.op = "search_score",
                  !.score = IF variant = "improved"
                            THEN float_combined_score(last.cosine_sim,
                                     float_keyword_overlap_score(
                                         preprocess_text(last.query), last.text))
                            ELSE last.cosine_sim]
    /\ UNCHANGED <<variant, documents, metadata, word_vectors, file, inserted, saved>>

NextFloat == CreateWordVectors \/ CosineSimilarity \/ CosineSimilaritySwapped \/ SearchScore

SpecFloat == InitFloat /\ [][NextFloat]_vars

(***************************************************************************)
(* SpecText: the tokenizer and the vectorizer of either class applied to   *)
(* every string of up to MaxTextLen characters over a small alphabet: an   *)
(* upper-case and a lower-case letter (which spell the stop word "did"), a *)
(* digit, a punctuation character and a blank.                             *)
(***************************************************************************)
MaxTextLen == 7

TextAlphabet == {"D", "i", "1", "-", " "}

Texts == UNION {[1..n -> TextAlphabet] : n \in 0..MaxTextLen}

TextCall(op, text) ==
    [op |-> op, text |-> text, words |-> <<>>, vector |-> NoTerms]

InitText ==
    /\ variant \in Variants
    /\ documents = <<>>
    /\ metadata = <<>>
    /\ word_vectors = NoVectors
    /\ file = NoFile
    /\ inserted = <<>>
    /\ saved = NotSaved
    /\ \E text \in Texts : last = TextCall("arguments", text)

\* ImprovedVectorStore.preprocess_text(text)
PreprocessText ==
    /\ variant = "improved"
    /\ last.op = "arguments"
    /\ last' = [last EXCEPT !.op = "preprocess_text",
                            !.words = preprocess_text(last.text)]
    /\ UNCHANGED <<variant, documents, metadata, word_vectors, file, inserted, saved>>

\* create_word_vector(text) of the class of the store
CreateWordVector ==
    /\ last.op = "arguments"
    /\ last' = [last EXCEPT !.op = "create_word_vector",
                            !.vector = create_word_vector(variant, last.text)]
    /\ UNCHANGED <<variant, documents, metadata, word_vectors, file, inserted, saved>>

NextText == PreprocessText \/ CreateWordVector

SpecText == InitText /\ [][NextText]_vars

(***************************************************************************)
(* SpecOverlap: keyword_overlap_score of ImprovedVectorStore applied to a  *)
(* list of up to MaxQueryWords query words, repetitions included, and a    *)
(* document text; then applied again to the list without its repetitions.  *)
(***************************************************************************)
MaxQueryWords == 3

OverlapWords == { <<"c","a","t">>, <<"d","o","g">>, <<"f","o","x">>, <<"t","h","e">> }

OverlapTexts == {TextCatDog, TextHyphen, TextStop, QueryEmpty, QueryMixed}

QueryWordLists == UNION {[1..n -> OverlapWords] : n \in 0..MaxQueryWords}

OverlapCall(op, query_words, doc_text) ==
    [op |-> op, query_words |-> query_words, doc_text |-> doc_text,
     keyword_overlap |-> FZero, keyword_overlap_float |-> FloatZero,
     without_repetitions |-> FZero]

InitOverlap ==
    /\ variant = "improved"
    /\ documents = <<>>
    /\ metadata = <<>>
    /\ word_vectors = NoVectors
    /\ file = NoFile
    /\ inserted = <<>>
    /\ saved = NotSaved
    /\ \E query_words \in QueryWordLists, doc_text \in OverlapTexts :
          last = OverlapCall("arguments", query_words, doc_text)

\* self.keyword_overlap_score(query_words, doc_text)
KeywordOverlapScore ==
    /\ last.op = "arguments"
    /\ last' = [last EXCEPT
                  !.op = "keyword_overlap_score",
                  !.keyword_overlap = keyword_overlap_score(last.query_words, last.doc_text),
                  !.keyword_overlap_float =
                      float_keyword_overlap_score(last.query_words, last.doc_text)]
    /\ UNCHANGED <<variant, documents, metadata, word_vectors, file, inserted, saved>>

\* self.keyword_overlap_score(words, doc_text) for the query words in their
\* order of first occurrence, each once
KeywordOverlapScoreOnce ==
    /\ last.op = "keyword_overlap_score"
    /\ last' = [last EXCEPT
                  !.op = "keyword_overlap_score_once",
                  !.without_repetitions =
                      keyword_overlap_score(
                          dictKeys(last.query_words, Len(last.query_words)),
                          last.doc_text)]
    /\ UNCHANGED <<variant, documents, metadata, word_vectors, file, inserted, saved>>

NextOverlap == KeywordOverlapScore \/ KeywordOverlapScoreOnce

SpecOverlap == InitOverlap /\ [][NextOverlap]_vars

(***************************************************************************)
(* SpecStopWords: either store fed with a document of stop words only and  *)
(* documents with terms, and asked for "AI" and "cat".                     *)
(***************************************************************************)
\* "the a an of"
TextAllStop ==
    <<"t","h","e"," ","a"," ","a","n"," ","o","f">>

\* "AI"
QueryAI ==
    <<"A","I">>

StopWordTexts == {TextAllStop, TextCatDog}

StopWordQueries == {QueryAI, QueryCat}

AddStopWordDocument ==
    \E text \in StopWordTexts : add_document(text, [given |-> FALSE, dict |-> {}])

SearchStopWords == \E query \in StopWordQueries, k \in Ks : search(query, k)

NextStopWords == Construct \/ AddStopWordDocument \/ SearchStopWords

SpecStopWords == Init /\ [][NextStopWords]_vars

(***************************************************************************)
(* Threads: calls of add_document, search and save made on one store by    *)
(* several threads, one statement at a time.  The variable last holds the  *)
(* locals of the call each thread is in.                                   *)
(***************************************************************************)
Threads == {"t1", "t2"}

ThreadTexts == {TextCatDog, TextStop}

ThreadQueries == {QueryCat}

ThreadKs == {1, MaxK}

\* The locals of a thread that is in no call.
Idle ==
    [op |-> "none", pc |-> "idle", text |-> <<>>, md |-> {}, vector |-> NoTerms,
     query |-> <<>>, k |-> 0, n |-> 0, scores |-> <<>>, results |-> <<>>]

localsOf(t) == last.thread[t]

\* Thread t moves on with the locals loc.
moveTo(t, loc) == last' = [last EXCEPT !.thread[t] = loc]

InitThreads ==
    /\ variant \in Variants
    /\ documents = <<>>
    /\ metadata = <<>>
    /\ word_vectors = NoVectors
    /\ file = NoFile
    /\ inserted = <<>>
    /\ saved = NotSaved
    /\ last = [op |-> "threads", thread |-> [t \in Threads |-> Idle]]

\* add_document(text): metadata = {}; vector = self.create_word_vector(text)
BeginAdd(t) ==
    /\ localsOf(t).pc = "idle"
    /\ Len(documents) < MaxDocs
    /\ \E text \in ThreadTexts :
          moveTo(t, [Idle EXCEPT !.op = "add_document", !.pc = "append_documents",
                                 !.text = text,
                                 !.vector = create_word_vector(variant, text)])
    /\ UNCHANGED <<variant, documents, metadata, word_vectors, file, inserted, saved>>

\* self.documents.append(text)
AppendDocuments(t) ==
    /\ localsOf(t).pc = "append_documents"
    /\ documents' = Append(documents, localsOf(t).text)
    /\ moveTo(t, [localsOf(t) EXCEPT !.pc = "append_metadata"])
    /\ UNCHANGED <<variant, metadata, word_vectors, file, inserted, saved>>

\* self.metadata.append(metadata)
AppendMetadata(t) ==
    /\ localsOf(t).pc = "append_metadata"
    /\ metadata' = Append(metadata, localsOf(t).md)
    /\ moveTo(t, [localsOf(t) EXCEPT !.pc = "store_vector"])
    /\ UNCHANGED <<variant, documents, word_vectors, file, inserted, saved>>

\* Variant of StoreVector: the vector is filed under the first unused key.
StoreVectorUnderUnusedKey(t) ==
    /\ localsOf(t).pc = "store_vector"
    /\ \E id \in {CHOOSE i \in 0..Len(documents) : i \notin DOMAIN word_vectors} :
          word_vectors' = [i \in DOMAIN word_vectors \cup {id} |->
                              IF i = id THEN localsOf(t).vector ELSE word_vectors[i]]
    /\ inserted' = Append(inserted, [text |-> localsOf(t).text,
                                     metadata |-> localsOf(t).md])
    /\ moveTo(t, [localsOf(t) EXCEPT !.pc = "returned"])
    /\ UNCHANGED <<variant, documents, metadata, file, saved>>

\* self.word_vectors[len(self.documents) - 1] = vector; return
StoreVector(t) ==
    /\ localsOf(t).pc = "store_vector"
    /\ \E id \in {Len(documents) - 1} :
          word_vectors' = [i \in DOMAIN word_vectors \cup {id} |->
                              IF i = id THEN localsOf(t).vector ELSE word_vectors[i]]
    /\ inserted' = Append(inserted, [text |-> localsOf(t).text,
                                     metadata |-> localsOf(t).md])
    /\ moveTo(t, [localsOf(t) EXCEPT !.pc = "returned"])
    /\ UNCHANGED <<variant, documents, metadata, file, saved>>

\* Variant of BeginSearch: the query is kept in the store as a document.
BeginSearchStoringQuery(t) ==
    /\ localsOf(t).pc = "idle"
    /\ \E query \in ThreadQueries, k \in ThreadKs :
          /\ documents' = Append(documents, query)
          /\ moveTo(t, [Idle EXCEPT !.op = "search", !.pc = "score",
                                    !.query = query, !.k = k,
                                    !.n = Len(documents) + 1])
    /\ UNCHANGED <<variant, metadata, word_vectors, file, inserted, saved>>

\* search(query, k): query_vector = ...; range(len(self.documents))
BeginSearch(t) ==
    /\ localsOf(t).pc = "idle"
    /\ \E query \in ThreadQueries, k \in ThreadKs :
          moveTo(t, [Idle EXCEPT !.op = "search", !.pc = "score",
                                 !.query = query, !.k = k,
                                 !.n = Len(documents)])
    /\ UNCHANGED <<variant, documents, metadata, word_vectors, file, inserted, saved>>

\* Variant of ScoreDocument: an id without a vector is passed over.
ScoreDocumentIfPresent(t) ==
    /\ localsOf(t).pc = "score"
    /\ Len(localsOf(t).scores) < localsOf(t).n
    /\ \E idx \in {Len(localsOf(t).scores)}, words \in {tokens(variant, localsOf(t).query)} :
          IF idx \notin DOMAIN word_vectors
          THEN moveTo(t, [localsOf(t) EXCEPT !.n = @ - 1])
          ELSE moveTo(t, [localsOf(t) EXCEPT
                             !.scores = Append(@, <<scoreOf(tfVector(words), words, idx),
                                                    idx>>)])
    /\ UNCHANGED <<variant, documents, metadata, word_vectors, file, inserted, saved>>

\* One round of the loop: doc_vector = self.word_vectors[idx]; ...;
\* similarities.append((similarity, idx))
ScoreDocument(t) ==
    /\ localsOf(t).pc = "score"
    /\ Len(localsOf(t).scores) < localsOf(t).n
    /\ \E idx \in {Len(localsOf(t).scores)}, words \in {tokens(variant, localsOf(t).query)} :
          IF idx \notin DOMAIN word_vectors
          THEN moveTo(t, [localsOf(t) EXCEPT !.pc = "KeyError"])
          ELSE moveTo(t, [localsOf(t) EXCEPT
                             !.scores = Append(@, <<scoreOf(tfVector(words), words, idx),
                                                    idx>>)])
    /\ UNCHANGED <<variant, documents, metadata, word_vectors, file, inserted, saved>>

\* similarities.sort(reverse=True); the loop over similarities[:k]; return
SortAndReturn(t) ==
    /\ localsOf(t).pc = "score"
    /\ Len(localsOf(t).scores) = localsOf(t).n
    /\ \E top \in {slice(sortReverse(localsOf(t).scores), localsOf(t).k)} :
          IF \E j \in DOMAIN top : top[j][2] + 1 > Len(metadata)
          THEN moveTo(t, [localsOf(t) EXCEPT !.pc = "IndexError"])
          ELSE moveTo(t, [localsOf(t) EXCEPT
                             !.pc = "returned",
                             !.results = [j \in DOMAIN top |->
                                 <<documents[top[j][2] + 1], top[j][1],
                                   metadata[top[j][2] + 1]>>]])
    /\ UNCHANGED <<variant, documents, metadata, word_vectors, file, inserted, saved>>

\* SimpleVectorStore.save, called by a thread
SaveByThread(t) ==
    /\ variant = "simple"
    /\ localsOf(t).pc = "idle"
    /\ file' = [exists |-> TRUE, keys |-> AllKeys, documents |-> documents,
                metadata |-> metadata, word_vectors |-> dumpVectors(word_vectors)]
    /\ saved' = [valid |-> TRUE, documents |-> documents, metadata |-> metadata,
                 word_vectors |-> word_vectors, inserted |-> inserted]
    /\ moveTo(t, [Idle EXCEPT !.op = "save", !.pc = "returned"])
    /\ UNCHANGED <<variant, documents, metadata, word_vectors, inserted>>

\* The caller takes the result, or the exception, of the call.
CallEnds(t) ==
    /\ localsOf(t).pc \in {"returned", "KeyError", "IndexError"}
    /\ moveTo(t, Idle)
    /\ UNCHANGED <<variant, documents, metadata, word_vectors, file, inserted, saved>>

\* add_document(text) called while no other thread is in a call.
AddSerialized(t) ==
    /\ \A u \in Threads : localsOf(u).pc = "idle"
    /\ Len(documents) < MaxDocs
    /\ \E text \in ThreadTexts, id \in {Len(documents)} :
          /\ documents' = Append(documents, text)
          /\ metadata' = Append(metadata, {})
          /\ word_vectors' = [i \in DOMAIN word_vectors \cup {id} |->
                                 IF i = id THEN create_word_vector(variant, text)
                                 ELSE word_vectors[i]]
          /\ inserted' = Append(inserted, [text |-> text, metadata |-> {}])
          /\ moveTo(t, [Idle EXCEPT !.op = "add_document", !.pc = "returned",
                                    !.text = text])
    /\ UNCHANGED <<variant, file, saved>>

SearchSteps(t) == BeginSearch(t) \/ ScoreDocument(t) \/ SortAndReturn(t)

AddSteps(t) == BeginAdd(t) \/ AppendDocuments(t) \/ AppendMetadata(t) \/ StoreVector(t)

(***************************************************************************)
(* SpecReaders: the threads search and save side by side; a document is    *)
(* added only while no call is under way.                                  *)
(***************************************************************************)
NextReaders ==
    \E t \in Threads :
        SearchSteps(t) \/ SaveByThread(t) \/ AddSerialized(t) \/ CallEnds(t)

SpecReaders == InitThreads /\ [][NextReaders]_vars

(***************************************************************************)
(* SpecThreads: the threads add documents and search with no exclusion.    *)
(***************************************************************************)
NextThreads ==
    \E t \in Threads : AddSteps(t) \/ SearchSteps(t) \/ CallEnds(t)

SpecThreads == InitThreads /\ [][NextThreads]_vars

(***************************************************************************)
(* SpecDemo: either store fed with the ten documents of                    *)
(* demo_improved_search, in their listed order, and searched.              *)
(***************************************************************************)
\* documents of demo_improved_search: (filename, content)
DemoDocuments ==
    <<
      [filename |-> "ai_introduction.txt",
       content |->
         <<"A","r","t","i","f","i","c","i","a","l"," ","I","n","t","e",
           "l","l","i","g","e","n","c","e"," ","(","A","I",")"," ","i",
           "s"," ","t","h","e"," ","s","i","m","u","l","a","t","i","o",
           "n"," ","o","f"," ","h","u","m","a","n"," ","i","n","t","e",
           "l","l","i","g","e","n","c","e"," ","p","r","o","c","e","s",
           "s","e","s"," ","b","y"," ","m","a","c","h","i","n","e","s",
           ","," ","e","s","p","e","c","i","a","l","l","y"," ","c","o",
           "m","p","u","t","e","r"," ","s","y","s","t","e","m","s",".",
           " ","T","h","e","s","e"," ","p","r","o","c","e","s","s","e",
           "s"," ","i","n","c","l","u","d","e"," ","l","e","a","r","n",
           "i","n","g",","," ","r","e","a","s","o","n","i","n","g",",",
           " ","a","n","d"," ","s","e","l","f","-","c","o","r","r","e",
           "c","t","i","o","n",".">>],
      [filename |-> "machine_learning_guide.txt",
       content |->
         <<"M","a","c","h","i","n","e"," ","l","e","a","r","n","i","n",
           "g"," ","i","s"," ","a"," ","m","e","t","h","o","d"," ","o",
           "f"," ","d","a","t","a"," ","a","n","a","l","y","s","i","s",
           " ","t","h","a","t"," ","a","u","t","o","m","a","t","e","s",
           " ","a","n","a","l","y","t","i","c","a","l"," ","m","o","d",
           "e","l"," ","b","u","i","l","d","i","n","g","."," ","I","t",
           " ","i","s"," ","a"," ","b","r","a","n","c","h"," ","o","f",
           " ","a","r","t","i","f","i","c","i","a","l"," ","i","n","t",
           "e","l","l","i","g","e","n","c","e"," ","b","a","s","e","d",
           " ","o","n"," ","t","h","e"," ","i","d","e","a"," ","t","h",
           "a","t"," ","s","y","s","t","e","m","s"," ","c","a","n"," ",
           "l","e","a","r","n"," ","f","r","o","m"," ","d","a","t","a",
           ".">>],
      [filename |-> "cooking_recipes.txt",
       content |->
         <<"L","e","a","r","n"," ","h","o","w"," ","t","o"," ","c","o",
           "o","k"," ","d","e","l","i","c","i","o","u","s"," ","I","t",
           "a","l","i","a","n"," ","p","a","s","t","a"," ","w","i","t",
           "h"," ","t","o","m","a","t","o"," ","s","a","u","c","e",".",
           " ","H","e","a","t"," ","o","l","i","v","e"," ","o","i","l",
           " ","i","n"," ","a"," ","p","a","n",","," ","a","d","d"," ",
           "g","a","r","l","i","c",","," ","t","h","e","n"," ","c","r",
           "u","s","h","e","d"," ","t","o","m","a","t","o","e","s",".",
           " ","S","e","a","s","o","n"," ","w","i","t","h"," ","s","a",
           "l","t",","," ","p","e","p","p","e","r",","," ","a","n","d",
           " ","f","r","e","s","h"," ","b","a","s","i","l"," ","l","e",
           "a","v","e","s",".">>],
      [filename |-> "sports_news.txt",
       content |->
         <<"T","h","e"," ","b","a","s","k","e","t","b","a","l","l"," ",
           "c","h","a","m","p","i","o","n","s","h","i","p"," ","f","i",
           "n","a","l","s"," ","w","i","l","l"," ","b","e"," ","h","e",
           "l","d"," ","n","e","x","t"," ","m","o","n","t","h","."," ",
           "T","e","a","m","s"," ","h","a","v","e"," ","b","e","e","n",
           " ","t","r","a","i","n","i","n","g"," ","h","a","r","d"," ",
           "a","l","l"," ","s","e","a","s","o","n","."," ","F","a","n",
           "s"," ","a","r","e"," ","e","x","c","i","t","e","d"," ","t",
           "o"," ","s","e","e"," ","w","h","i","c","h"," ","t","e","a",
           "m"," ","w","i","l","l"," ","w","i","n"," ","t","h","e"," ",
           "t","r","o","p","h","y"," ","t","h","i","s"," ","y","e","a",
           "r",".">>],
      [filename |-> "deep_learning_neural.txt",
       content |->
         <<"D","e","e","p"," ","l","e","a","r","n","i","n","g"," ","i",
           "s"," ","p","a","r","t"," ","o","f"," ","a"," ","b","r","o",
           "a","d","e","r"," ","f","a","m","i","l","y"," ","o","f"," ",
           "m","a","c","h","i","n","e"," ","l","e","a","r","n","i","n",
           "g"," ","m","e","t","h","o","d","s"," ","b","a","s","e","d",
           " ","o","n"," ","a","r","t","i","f","i","c","i","a","l"," ",
           "n","e","u","r","a","l"," ","n","e","t","w","o","r","k","s",
           " ","w","i","t","h"," ","r","e","p","r","e","s","e","n","t",
           "a","t","i","o","n"," ","l","e","a","r","n","i","n","g",".",
           " ","N","e","u","r","a","l"," ","n","e","t","w","o","r","k",
           "s"," ","m","i","m","i","c"," ","t","h","e"," ","h","u","m",
           "a","n"," ","b","r","a","i","n",".">>],
      [filename |-> "travel_guide_europe.txt",
       content |->
         <<"E","u","r","o","p","e"," ","o","f","f","e","r","s"," ","a",
           "m","a","z","i","n","g"," ","d","e","s","t","i","n","a","t",
           "i","o","n","s"," ","f","o","r"," ","t","r","a","v","e","l",
           "e","r","s","."," ","V","i","s","i","t"," ","R","o","m","e",
           " ","f","o","r"," ","a","n","c","i","e","n","t"," ","h","i",
           "s","t","o","r","y",","," ","P","a","r","i","s"," ","f","o",
           "r"," ","a","r","t"," ","a","n","d"," ","c","u","l","t","u",
           "r","e",","," ","o","r"," ","B","a","r","c","e","l","o","n",
           "a"," ","f","o","r"," ","b","e","a","u","t","i","f","u","l",
           " ","a","r","c","h","i","t","e","c","t","u","r","e"," ","a",
           "n","d"," ","b","e","a","c","h","e","s",".">>],
      [filename |-> "python_programming.txt",
       content |->
         <<"P","y","t","h","o","n"," ","i","s"," ","a"," ","h","i","g",
           "h","-","l","e","v","e","l"," ","p","r","o","g","r","a","m",
           "m","i","n","g"," ","l","a","n","g","u","a","g","e"," ","k",
           "n","o","w","n"," ","f","o","r"," ","i","t","s"," ","s","i",
           "m","p","l","e"," ","s","y","n","t","a","x","."," ","I","t",
           "'","s"," ","w","i","d","e","l","y"," ","u","s","e","d"," ",
           "i","n"," ","w","e","b"," ","d","e","v","e","l","o","p","m",
           "e","n","t",","," ","d","a","t","a"," ","s","c","i","e","n",
           "c","e",","," ","a","n","d"," ","a","r","t","i","f","i","c",
           "i","a","l"," ","i","n","t","e","l","l","i","g","e","n","c",
           "e"," ","a","p","p","l","i","c","a","t","i","o","n","s",".">>],
      [filename |-> "climate_environment.txt",
       content |->
         <<"C","l","i","m","a","t","e"," ","c","h","a","n","g","e"," ",
           "i","s"," ","a"," ","l","o","n","g","-","t","e","r","m"," ",
           "s","h","i","f","t"," ","i","n"," ","g","l","o","b","a","l",
           " ","w","e","a","t","h","e","r"," ","p","a","t","t","e","r",
           "n","s","."," ","H","u","m","a","n"," ","a","c","t","i","v",
           "i","t","i","e","s"," ","l","i","k","e"," ","b","u","r","n",
           "i","n","g"," ","f","o","s","s","i","l"," ","f","u","e","l",
           "s"," ","c","o","n","t","r","i","b","u","t","e"," ","t","o",
           " ","g","r","e","e","n","h","o","u","s","e"," ","g","a","s",
           " ","e","m","i","s","s","i","o","n","s"," ","a","n","d"," ",
           "g","l","o","b","a","l"," ","w","a","r","m","i","n","g",".">>],
      [filename |-> "neural_networks_ai.txt",
       content |->
         <<"N","e","u","r","a","l"," ","n","e","t","w","o","r","k","s",
           " ","a","r","e"," ","c","o","m","p","u","t","i","n","g"," ",
           "s","y","s","t","e","m","s"," ","v","a","g","u","e","l","y",
           " ","i","n","s","p","i","r","e","d"," ","b","y"," ","t","h",
           "e"," ","b","i","o","l","o","g","i","c","a","l"," ","n","e",
           "u","r","a","l"," ","n","e","t","w","o","r","k","s","."," ",
           "A","r","t","i","f","i","c","i","a","l"," ","n","e","u","r",
           "a","l"," ","n","e","t","w","o","r","k","s"," ","a","r","e",
           " ","u","s","e","d"," ","i","n"," ","a","r","t","i","f","i",
           "c","i","a","l"," ","i","n","t","e","l","l","i","g","e","n",
           "c","e"," ","a","n","d"," ","m","a","c","h","i","n","e"," ",
           "l","e","a","r","n","i","n","g",".">>],
      [filename |-> "gardening_plants.txt",
       content |->
         <<"G","r","o","w","i","n","g"," ","h","e","a","l","t","h","y",
           " ","p","l","a","n","t","s"," ","r","e","q","u","i","r","e",
           "s"," ","p","r","o","p","e","r"," ","s","o","i","l",","," ",
           "a","d","e","q","u","a","t","e"," ","w","a","t","e","r",",",
           " ","a","n","d"," ","s","u","f","f","i","c","i","e","n","t",
           " ","s","u","n","l","i","g","h","t","."," ","C","h","o","o",
           "s","e"," ","p","l","a","n","t","s"," ","t","h","a","t"," ",
           "m","a","t","c","h"," ","y","o","u","r"," ","l","o","c","a",
           "l"," ","c","l","i","m","a","t","e"," ","a","n","d"," ","s",
           "o","i","l"," ","c","o","n","d","i","t","i","o","n","s"," ",
           "f","o","r"," ","b","e","s","t"," ","r","e","s","u","l","t",
           "s",".">>] >>

\* "Which file talks about AI?"
DemoQuery ==
    <<"W","h","i","c","h"," ","f","i","l","e"," ","t","a","l","k","s"," ",
      "a","b","o","u","t"," ","A","I","?">>

\* "AI is smart"
TextAISmart ==
    <<"A","I"," ","i","s"," ","s","m","a","r","t">>

DemoQueries == {DemoQuery, TextAISmart}

\* store.add_document(content, {"filename": filename, "length": len(content)})
\* for the next document of the list
AddDemoDocument ==
    /\ Len(documents) < Len(DemoDocuments)
    /\ \E doc \in {DemoDocuments[Len(documents) + 1]} :
       \E md \in {{<<"filename", doc.filename>>, <<"length", Len(doc.content)>>}},
          id \in {Len(documents)} :
          /\ documents' = Append(documents, doc.content)
          /\ metadata' = Append(metadata, md)
          /\ word_vectors' = [i \in DOMAIN word_vectors \cup {id} |->
                                 IF i = id THEN create_word_vector(variant, doc.content)
                                 ELSE word_vectors[i]]
          /\ inserted' = Append(inserted, [text |-> doc.content, metadata |-> md])
          /\ last' = [Call("add_document", "ok") EXCEPT !.text = doc.content]
    /\ UNCHANGED <<variant, file, saved>>

SearchDemo == \E query \in DemoQueries, k \in Ks : search(query, k)

NextDemo == Construct \/ AddDemoDocument \/ SearchDemo

SpecDemo == Init /\ [][NextDemo]_vars

(***************************************************************************)
(* Properties.                                                             *)
(***************************************************************************)
SearchDone == last.op = "search" /\ last.outcome = "ok"

Min(a, b) == IF a < b THEN a ELSE b

Max(a, b) == IF a > b THEN a ELSE b

\* C1, as stated: of two documents with the same score in a search result, the
\* one with the smaller insertion id comes first.
TieEarlierFirst ==
    SearchDone =>
        \A i, j \in DOMAIN last.similarities :
            (i < j /\ ScoreEqual(last.similarities[i][1], last.similarities[j][1]))
                => last.similarities[i][2] < last.similarities[j][2]

\* C1, amended: of two documents with the same score in a search result, the
\* one with the larger insertion id (added later) comes first.
TieLaterFirst ==
    SearchDone =>
        \A i, j \in DOMAIN last.similarities :
            (i < j /\ ScoreEqual(last.similarities[i][1], last.similarities[j][1]))
                => last.similarities[i][2] > last.similarities[j][2]

\* A search has returned two documents with the same non-zero score.
TieReturned ==
    /\ SearchDone
    /\ \E i, j \in DOMAIN last.results :
          /\ i < j
          /\ ScoreEqual(last.results[i][2], last.results[j][2])
          /\ ~ IsZeroScore(last.results[i][2])

\* C2: for k >= 1 the list returned by search is in non-increasing order of
\* score.
SortedByScore ==
    (SearchDone /\ last.k >= 1) =>
        \A i, j \in DOMAIN last.results :
            i < j => ~ ScoreGreater(last.results[j][2], last.results[i][2])

\* A search with k >= 1 has returned documents of three different scores.
DistinctScoresReturned ==
    /\ SearchDone /\ last.k >= 1
    /\ Len(last.results) >= 3
    /\ ScoreGreater(last.results[1][2], last.results[2][2])
    /\ ScoreGreater(last.results[2][2], last.results[3][2])

\* C3: for k >= 1 search returns exactly min(k, number of documents) results.
ResultLength ==
    (last.op = "search" /\ last.k >= 1) =>
        /\ last.outcome = "ok"
        /\ Len(last.results) = Min(last.k, Len(documents))

\* A search has been cut to k results, k below the corpus size.
TruncatedSearch ==
    /\ SearchDone /\ last.k >= 1 /\ last.k < Len(documents)
    /\ Len(last.results) = last.k

\* C4, as stated: search with k < 1 ends in InvalidArgumentError and returns
\* no result list.
SmallKRaises ==
    (last.op = "search" /\ last.k < 1) =>
        last.outcome = "InvalidArgumentError" /\ last.results = <<>>

\* C4, amended: search with k < 1 raises nothing and returns similarities[:k]:
\* the empty list for k = 0 and, for k < 0, the ranking without its last -k
\* entries (empty when -k is at least the corpus size).
SmallKReturnsSlice ==
    (last.op = "search" /\ last.k < 1) =>
        /\ last.outcome = "ok"
        /\ Len(last.results) = IF last.k = 0 THEN 0
                                ELSE Max(Len(documents) + last.k, 0)

\* A search with negative k has returned a non-empty list.
NegativeKSearch == SearchDone /\ last.k < 0 /\ Len(last.results) >= 1

\* C5, as stated: a query with no surviving token returns, for k >= 1, the
\* first min(k, n) documents in insertion order (ids 0, 1, ...), each with
\* score 0.
NoTokenQueryInsertionOrder ==
    (SearchDone /\ last.k >= 1 /\ tokens(variant, last.query) = <<>>) =>
        /\ Len(last.results) = Min(last.k, Len(documents))
        /\ \A j \in DOMAIN last.results :
              /\ last.similarities[j][2] = j - 1
              /\ last.results[j][1] = documents[j]
              /\ IsZeroScore(last.results[j][2])

\* C5, amended: a query with no surviving token returns, for k >= 1, the last
\* min(k, n) documents in reverse insertion order (ids n-1, n-2, ...), each
\* with score 0.
NoTokenQueryReverseOrder ==
    (SearchDone /\ last.k >= 1 /\ tokens(variant, last.query) = <<>>) =>
        /\ Len(last.results) = Min(last.k, Len(documents))
        /\ \A j \in DOMAIN last.results :
              /\ last.similarities[j][2] = Len(documents) - j
              /\ last.results[j][1] = documents[Len(documents) - j + 1]
              /\ IsZeroScore(last.results[j][2])

\* A non-empty query without surviving tokens has been searched for in a
\* corpus of at least two documents, with 1 <= k < corpus size.
NoTokenQuerySearched ==
    /\ SearchDone /\ last.k >= 1 /\ last.k < Len(documents)
    /\ last.query # <<>> /\ tokens(variant, last.query) = <<>>

ScenarioSearched ==
    /\ documents = <<DocA, DocB, DocC>>
    /\ SearchDone /\ last.query = ScenarioQuery /\ last.k = 2

\* C6, as stated: with A, B, C added in this order, the scenario query with
\* k = 2 returns exactly C and A, and B is not in the result.
ScenarioReturnsCAndA ==
    ScenarioSearched =>
        /\ Len(last.results) = 2
        /\ {last.results[j][1] : j \in DOMAIN last.results} = {DocC, DocA}

\* C6, amended: with A, B, C added in this order, the scenario query with
\* k = 2 returns C and then B (A and B both score 0, the later one comes
\* first), and A is not in the result.
ScenarioReturnsCThenB ==
    ScenarioSearched =>
        /\ Len(last.results) = 2
        /\ last.results[1][1] = DocC /\ ~ IsZeroScore(last.results[1][2])
        /\ last.results[2][1] = DocB /\ IsZeroScore(last.results[2][2])

\* The scenario has been played in either class.
ScenarioPlayed == ScenarioSearched /\ Len(last.results) = 2

\* C7: whatever add_document, search, save and load of a saved store have
\* done, the three attributes have the same size, the keys of word_vectors
\* are exactly 0 .. n-1, and position i holds the i-th document inserted
\* (its text, its metadata, the vector of its text).
StoreConsistent ==
    /\ Len(metadata) = Len(documents)
    /\ DOMAIN word_vectors = 0..(Len(documents) - 1)
    /\ Len(inserted) = Len(documents)
    /\ \A i \in DOMAIN documents :
          /\ documents[i] = inserted[i].text
          /\ metadata[i] = inserted[i].metadata
          /\ word_vectors[i - 1] = create_word_vector(variant, documents[i])

\* A saved store of two or more documents has been loaded into a store that
\* held a different number of documents.
SavedStoreLoaded ==
    /\ last.op = "load" /\ last.outcome = "ok"
    /\ Len(documents) >= 2 /\ last.before # Len(documents)

\* C8: every add_document call succeeds, files the new document under the id
\* equal to the corpus size before the call and grows the corpus by exactly
\* one; a text added again gets a new id and a vector equal to that of the
\* earlier entry.
AddAppends ==
    [][last'.op = "add_document" =>
         /\ last'.outcome = "ok"
         /\ Len(documents') = Len(documents) + 1
         /\ Len(metadata') = Len(metadata) + 1
         /\ documents'[Len(documents) + 1] = last'.text
         /\ Len(documents) \notin DOMAIN word_vectors
         /\ DOMAIN word_vectors' = DOMAIN word_vectors \cup {Len(documents)}
         /\ \A i \in DOMAIN documents :
               documents[i] = last'.text =>
                   word_vectors'[Len(documents)] = word_vectors'[i - 1]
    ]_vars

\* The last call added a text that the store already held.
DuplicateAdded ==
    /\ last.op = "add_document"
    /\ \E i \in 1..(Len(documents) - 1) : documents[i] = documents[Len(documents)]
    /\ Cardinality(DOMAIN word_vectors) = Len(documents)

\* C9: after a store has been saved, load leaves the loading store, empty or
\* not, with exactly the saved size and, under every id, the saved text,
\* metadata and vector: what it held before is replaced.
RoundTrip ==
    (last.op = "load" /\ saved.valid) =>
        /\ last.outcome = "ok"
        /\ documents = saved.documents
        /\ metadata = saved.metadata
        /\ word_vectors = saved.word_vectors

\* A saved store with documents has been loaded into a store that held more
\* documents than it.
LoadedOverLargerStore ==
    /\ last.op = "load" /\ last.outcome = "ok"
    /\ Len(documents) >= 1 /\ last.before > Len(documents)

\* C10: a load that fails leaves documents, metadata and word_vectors as they
\* were before the call.
LoadAllOrNothing ==
    [][(last'.op = "load" /\ last'.outcome # "ok") =>
           UNCHANGED <<documents, metadata, word_vectors>>]_vars

\* vec is the term-frequency vector of the token sequence words: its terms
\* are the tokens, each weight is positive and equal to count / total, and the
\* weights of a non-empty vector sum to 1.
IsTermFrequencyVector(vec, words) ==
    /\ DOMAIN vec = Range(words)
    /\ (vec = NoTerms) <=> (words = <<>>)
    /\ \A w \in DOMAIN vec :
          /\ vec[w][1] > 0 /\ vec[w][2] > 0
          /\ vec[w][1] * Len(words)
                = Cardinality({i \in DOMAIN words : words[i] = w}) * vec[w][2]
    /\ words # <<>> =>
          SumProducts(vec, [w \in DOMAIN vec |-> FOne], DOMAIN vec) = FOne

\* C11: in every reachable state each stored document vector, and the query
\* vector of every search, is empty exactly when no token of its text survives
\* filtering and otherwise has strictly positive weights count(term) / total
\* surviving tokens that sum to 1 (weights taken as the rationals that the
\* stored floats are nearest to).
VectorsNormalized ==
    /\ \A i \in DOMAIN documents :
          /\ (i - 1) \in DOMAIN word_vectors
          /\ IsTermFrequencyVector(word_vectors[i - 1], tokens(variant, documents[i]))
    /\ last.op = "search" =>
          IsTermFrequencyVector(last.query_vector, tokens(variant, last.query))

\* The store holds an empty vector for a non-empty text and a vector with two
\* different weights, and has been searched with a query of two different
\* weights.
UnevenVectorsStored ==
    /\ \E i \in DOMAIN documents :
          documents[i] # <<>> /\ word_vectors[i - 1] = NoTerms
    /\ \E i \in DOMAIN documents : \E w1, w2 \in DOMAIN word_vectors[i - 1] :
          FLess(word_vectors[i - 1][w1], word_vectors[i - 1][w2])
    /\ last.op = "search"
    /\ \E w1, w2 \in DOMAIN last.query_vector :
          FLess(last.query_vector[w1], last.query_vector[w2])

\* The maximal alphanumeric runs of t, by their first positions.
RunStarts(t) ==
    {i \in DOMAIN t : t[i] \in AlnumChars /\ (i = 1 \/ t[i - 1] \notin AlnumChars)}

RunEnd(t, i) ==
    CHOOSE j \in i..Len(t) :
        /\ \A n \in i..j : t[n] \in AlnumChars
        /\ (j = Len(t) \/ t[j + 1] \notin AlnumChars)

RunAt(t, i) == SubSeq(t, i, RunEnd(t, i))

\* The starts of the runs that are tokens: length >= 3, not a stop word.
KeptStarts(t) ==
    {i \in RunStarts(t) : Len(RunAt(t, i)) >= 3 /\ RunAt(t, i) \notin stop_words}

NthOf(S, n) == CHOOSE i \in S : Cardinality({j \in S : j < i}) = n - 1

Lowered(t) ==
    [i \in DOMAIN t |->
        IF \E n \in DOMAIN UpperCase : UpperCase[n] = t[i]
        THEN LowerCase[CHOOSE n \in DOMAIN UpperCase : UpperCase[n] = t[i]]
        ELSE t[i]]

\* C12: preprocess_text returns, in order of occurrence, exactly the maximal
\* alphanumeric runs of the lowercased text that have length >= 3 and are not
\* stop words; every token is lowercase and alphanumeric; the empty string
\* gives the empty sequence.
TokensAreKeptRuns ==
    last.op = "preprocess_text" =>
        LET t == Lowered(last.text)
        IN  /\ Len(last.words) = Cardinality(KeptStarts(t))
            /\ \A n \in DOMAIN last.words :
                  last.words[n] = RunAt(t, NthOf(KeptStarts(t), n))
            /\ \A n \in DOMAIN last.words : \A i \in DOMAIN last.words[n] :
                  last.words[n][i] \in Range(LowerCase) \cup Range(DigitChars)
            /\ (last.text = <<>> => last.words = <<>>)

\* preprocess_text has returned two tokens, one of them written with an
\* upper-case letter in the text.
TwoTokensKept ==
    /\ last.op = "preprocess_text"
    /\ Len(last.words) = 2
    /\ \E i \in DOMAIN last.text : last.text[i] \in Range(UpperCase)

\* The position of the punctuation character of a text "x<p>y": x and y are
\* alphanumeric runs of length >= 3 and p is neither alphanumeric nor white.
PunctuationAt(text) ==
    {i \in DOMAIN text :
        /\ text[i] \notin AlnumChars \cup Whitespace
        /\ i >= 4 /\ Len(text) - i >= 3
        /\ \A j \in DOMAIN text \ {i} : text[j] \in AlnumChars}

LeftRun(text) == SubSeq(text, 1, (CHOOSE i \in PunctuationAt(text) : TRUE) - 1)

RightRun(text) ==
    SubSeq(text, (CHOOSE i \in PunctuationAt(text) : TRUE) + 1, Len(text))

VectorOfPunctuated ==
    last.op = "create_word_vector" /\ PunctuationAt(last.text) # {}

\* C13, as stated: in both classes the terms of the vector of "x<p>y" are x
\* and y (lowercased), never the concatenation xy.
PunctuationSeparates ==
    VectorOfPunctuated =>
        /\ DOMAIN last.vector
              = {Lowered(LeftRun(last.text)), Lowered(RightRun(last.text))}
        /\ Lowered(LeftRun(last.text) \o RightRun(last.text)) \notin DOMAIN last.vector

\* C13, amended: in ImprovedVectorStore the terms of the vector of "x<p>y"
\* are those of x and y (lowercased) that are not stop words, never the
\* concatenation xy; in SimpleVectorStore, where only white space separates
\* words and other characters are deleted, the only term is the concatenation
\* xy (lowercased).
PunctuationSeparatesImprovedOnly ==
    VectorOfPunctuated =>
        IF variant = "improved"
        THEN /\ DOMAIN last.vector
                   = {Lowered(LeftRun(last.text)), Lowered(RightRun(last.text))}
                        \ stop_words
             /\ Lowered(LeftRun(last.text) \o RightRun(last.text))
                   \notin DOMAIN last.vector
        ELSE DOMAIN last.vector
                   = {Lowered(LeftRun(last.text) \o RightRun(last.text))}

\* SimpleVectorStore has built the vector of a text "x<p>y" and
\* ImprovedVectorStore that of one where x is a stop word.
PunctuatedVectorBuilt ==
    /\ VectorOfPunctuated
    /\ \/ variant = "simple"
       \/ Lowered(LeftRun(last.text)) \in stop_words

\* C14: every cosine similarity, and every score that search returns (the
\* cosine itself or 0.7 * cosine + 0.3 * keyword overlap), lies in [0, 1].
\* (A float of the model is never negative.)
ScoresInUnitInterval ==
    /\ last.op \in {"cosine_similarity", "cosine_similarity_swapped", "search_score"} =>
          ~ FloatLess(FloatOne, last.cosine_sim)
    /\ last.op = "cosine_similarity_swapped" => ~ FloatLess(FloatOne, last.swapped)
    /\ last.op = "search_score" => ~ FloatLess(FloatOne, last.score)

\* |x - y| <= 1e-9
NearlyEqual(x, y) ==
    LET tolerance == FloatDiv(FloatOne, FloatOfInt(1000000000))
    IN  /\ ~ FloatLess(FloatAdd(y, tolerance), x)
        /\ ~ FloatLess(FloatAdd(x, tolerance), y)

SelfSimilarityComputed ==
    /\ last.op = "cosine_similarity"
    /\ last.query_vector # <<>> /\ last.query_vector = last.doc_vector

\* C15, as stated: cosine_similarity(v, v) = 1.0 for every non-empty
\* term-frequency vector v.
SelfSimilarityIsOne ==
    SelfSimilarityComputed => last.cosine_sim = FloatOne

\* C15, amended: cosine_similarity(v, v) is within 1e-9 of 1.0 for every
\* non-empty term-frequency vector v (it need not be 1.0 itself: the rounded
\* product of the two magnitudes differs from the rounded dot product).
SelfSimilarityNearOne ==
    SelfSimilarityComputed => NearlyEqual(last.cosine_sim, FloatOne)

\* A vector of several terms has been compared with itself and the result is
\* below 1.0.
SelfSimilarityBelowOne ==
    /\ SelfSimilarityComputed
    /\ Len(last.query_vector) >= 2
    /\ FloatLess(last.cosine_sim, FloatOne)

FormulaSquared(a, b) ==
    LET dot == SumProducts(a, b, DOMAIN a \cap DOMAIN b)
        sq1 == SumProducts(a, a, DOMAIN a)
        sq2 == SumProducts(b, b, DOMAIN b)
    IN  IF sq1 = FZero \/ sq2 = FZero THEN FZero
        ELSE FDiv(FMul(dot, dot), FMul(sq1, sq2))

\* C17: cosine_similarity returns a value for every pair of vectors: 0.0 when
\* a vector is empty and when the vectors share no key, which is the value of
\* the full formula there, and otherwise the value of
\* (sum over shared keys of a[t] * b[t]) / (|a| * |b|), to within 1e-9 of the
\* exact value.
CosineIsFormula ==
    last.op = "cosine_similarity" =>
        LET formula == FormulaSquared(tfVector(tokens(variant, last.query)),
                                      tfVector(tokens(variant, last.text)))
        IN  /\ (\/ last.query_vector = <<>> \/ last.doc_vector = <<>>
                \/ keysOf(last.query_vector) \cap keysOf(last.doc_vector) = {})
                  => (last.cosine_sim = FloatZero /\ formula = FZero)
            /\ (last.cosine_sim = FloatZero) <=> (formula = FZero)
            /\ NearlyEqual(FloatMul(last.cosine_sim, last.cosine_sim),
                           FloatDiv(FloatOfInt(formula[1]), FloatOfInt(formula[2])))

\* The similarity of two vectors that share a key and each have a key of
\* their own has been computed.
PartialOverlapCompared ==
    /\ last.op = "cosine_similarity"
    /\ keysOf(last.query_vector) \cap keysOf(last.doc_vector) # {}
    /\ keysOf(last.query_vector) \ keysOf(last.doc_vector) # {}
    /\ keysOf(last.doc_vector) \ keysOf(last.query_vector) # {}
    /\ FloatLess(FloatZero, last.cosine_sim) /\ FloatLess(last.cosine_sim, FloatOne)

\* The tokens of a document text, from the positions of its runs.
TokenSetOf(text) ==
    {RunAt(Lowered(text), i) : i \in KeptStarts(Lowered(text))}

\* C18: keyword_overlap_score(query_words, doc_text) is
\* |set(query_words) & set(tokens of doc_text)| / |set(query_words)|, is 0.0
\* for no query words, lies in [0, 1], and is the same for the list of query
\* words without its repetitions.
OverlapIsSharedFraction ==
    /\ last.op \in {"keyword_overlap_score", "keyword_overlap_score_once"} =>
          LET words  == {last.query_words[i] : i \in DOMAIN last.query_words}
              shared == words \cap TokenSetOf(last.doc_text)
          IN  /\ last.keyword_overlap[2] > 0
              /\ last.keyword_overlap[1] * Cardinality(words)
                    = Cardinality(shared) * last.keyword_overlap[2]
              /\ (words = {} => /\ last.keyword_overlap = FZero
                                /\ last.keyword_overlap_float = FloatZero)
              /\ 0 <= last.keyword_overlap[1]
              /\ last.keyword_overlap[1] <= last.keyword_overlap[2]
              /\ ~ FloatLess(FloatOne, last.keyword_overlap_float)
              /\ (last.keyword_overlap_float = FloatZero) <=> (shared = {})
              /\ (last.keyword_overlap_float = FloatOne) <=> (words # {} /\ shared = words)
    /\ last.op = "keyword_overlap_score_once" =>
          last.without_repetitions = last.keyword_overlap

\* The score of a list with a repeated word, some of whose words are in the
\* document and some not, has been computed both ways.
RepeatedWordScored ==
    /\ last.op = "keyword_overlap_score_once"
    /\ Len(last.query_words)
          > Cardinality({last.query_words[i] : i \in DOMAIN last.query_words})
    /\ last.keyword_overlap # FZero /\ last.keyword_overlap # FOne

\* C19: search of a store without documents returns [] for every query and
\* every k >= 1, and no call of search ends in an error.
SearchNeverFails ==
    last.op = "search" =>
        /\ last.outcome = "ok"
        /\ (documents = <<>> /\ last.k >= 1) => last.results = <<>>

\* C20: an ImprovedVectorStore whose only document is "the a an of" holds the
\* empty vector for it, and search("AI") returns that document alone, with
\* score 0.0 (both parts of the score are 0.0).
StopWordDocumentScoresZero ==
    (variant = "improved" /\ documents = <<TextAllStop>>) =>
        /\ DOMAIN word_vectors = {0}
        /\ DOMAIN word_vectors[0] = {}
        /\ (last.op = "search" /\ last.query = QueryAI /\ last.k >= 1) =>
              /\ last.outcome = "ok"
              /\ Len(last.results) = 1
              /\ last.results[1][1] = TextAllStop
              /\ last.results[1][2].cos2 = FZero
              /\ last.results[1][2].overlap = FZero
              /\ last.results[1][3] = {}
              /\ float_combined_score(
                     float_cosine_similarity(
                         word_vector_items(variant, last.query),
                         word_vector_items(variant, documents[1]), <<>>),
                     float_keyword_overlap_score(
                         preprocess_text(last.query), documents[1])) = FloatZero

\* search("AI"), with the default k = 3, has been answered by the store that
\* holds "the a an of" alone.
StopWordDocumentSearched ==
    /\ variant = "improved"
    /\ documents = <<TextAllStop>>
    /\ last.op = "search" /\ last.query = QueryAI /\ last.k = 3
    /\ Len(last.results) = 1

\* What search(query, k) returns when it runs alone on the store as it is.
resultsAlone(query, k) ==
    LET top == slice(similaritiesOf(query), k)
    IN  [j \in DOMAIN top |->
            <<documents[top[j][2] + 1], top[j][1], metadata[top[j][2] + 1]>>]

\* A step of a search or save call of some thread.
ReaderStep ==
    \E t \in Threads :
        /\ last'.thread[t] # last.thread[t]
        /\ \/ last.thread[t].op \in {"search", "save"}
           \/ last'.thread[t].op \in {"search", "save"}

SearchesComplete ==
    \A t \in Threads :
        /\ localsOf(t).pc \notin {"KeyError", "IndexError"}
        /\ localsOf(t).op = "search" => localsOf(t).query \notin Range(documents)
        /\ (localsOf(t).op = "search" /\ localsOf(t).pc = "returned") =>
              localsOf(t).results = resultsAlone(localsOf(t).query, localsOf(t).k)

\* C21: no step of search or save changes documents, metadata or
\* word_vectors, the query is never stored, and searches that run side by
\* side on a store that no call is changing all return, without an error,
\* what they return when run alone.
SearchAndSaveReadOnly ==
    /\ [][ReaderStep => UNCHANGED <<documents, metadata, word_vectors>>]_vars
    /\ []SearchesComplete

\* One thread has returned from a search with two results while the other is
\* half-way through the loop of its own search.
SearchesOverlapped ==
    /\ localsOf("t1").op = "search" /\ localsOf("t1").pc = "returned"
    /\ Len(localsOf("t1").results) >= 2
    /\ localsOf("t2").op = "search" /\ localsOf("t2").pc = "score"
    /\ Len(localsOf("t2").scores) >= 1
    /\ Len(localsOf("t2").scores) < localsOf("t2").n
    /\ saved.valid

\* C22: the vector of "AI is smart" has the three terms ai, is and smart,
\* each with weight 1/3.
AISmartHasThreeTerms ==
    (last.op = "search" /\ last.query = TextAISmart) =>
        /\ DOMAIN last.query_vector = { <<"a","i">>, <<"i","s">>,
                                        <<"s","m","a","r","t">> }
        /\ \A w \in DOMAIN last.query_vector : last.query_vector[w] = Frac(1, 3)

\* The filenames of the metadata of the results of the last search, in order.
filenamesReturned ==
    [j \in DOMAIN last.results |->
        CHOOSE f \in {DemoDocuments[i].filename : i \in DOMAIN DemoDocuments} :
            <<"filename", f>> \in last.results[j][3]]

\* C23: with the ten demo documents added in their listed order,
\* search("Which file talks about AI?", k=3) of ImprovedVectorStore returns
\* ai_introduction.txt, neural_networks_ai.txt, python_programming.txt.
DemoSearchFindsAI ==
    (/\ variant = "improved"
     /\ Len(documents) = Len(DemoDocuments)
     /\ last.op = "search" /\ last.query = DemoQuery /\ last.k = 3) =>
        filenamesReturned = <<"ai_introduction.txt", "neural_networks_ai.txt",
                              "python_programming.txt">>

\* C24: search raises for no edge-case argument (empty corpus, query without
\* words, k = 0, negative k): it returns a list of (text, score, metadata)
\* results that holds at most max(k, 1) entries.
EdgeCaseResultsBounded ==
    last.op = "search" =>
        /\ last.outcome = "ok"
        /\ \A j \in DOMAIN last.results :
              /\ last.results[j][1] \in Range(documents)
              /\ last.results[j][3] \in Range(metadata)
        /\ Len(last.results) <= Max(last.k, 1)

\* The ids of the documents that the last search returned.
returnedIds == {last.similarities[j][2] : j \in DOMAIN last.similarities}

\* The score that search gives document idx for the query of the last call.
scoreFor(idx) ==
    scoreOf(last.query_vector, tokens(variant, last.query), idx)

\* C25: for k >= 1, no document left out of the result has a score strictly
\* greater than a returned one, no document is returned twice, and every
\* stored document is either returned or left out for k returned ones.
TopKSelected ==
    (SearchDone /\ last.k >= 1) =>
        /\ returnedIds \subseteq 0..(Len(documents) - 1)
        /\ Cardinality(returnedIds) = Len(last.results)
        /\ Len(last.similarities) = Len(last.results)
        /\ Len(last.results) = Min(last.k, Len(documents))
        /\ \A j \in DOMAIN last.results :
              /\ last.results[j][2] = scoreFor(last.similarities[j][2])
              /\ \A idx \in (0..(Len(documents) - 1)) \ returnedIds :
                    ~ ScoreGreater(scoreFor(idx), last.results[j][2])

\* A search has left out a document whose score is strictly smaller than
\* that of every returned one, and has returned two documents.
LowerScoreLeftOut ==
    /\ SearchDone /\ last.k = 2 /\ Len(documents) = 3
    /\ \E idx \in (0..2) \ returnedIds :
          \A j \in DOMAIN last.results :
              ScoreGreater(last.results[j][2], scoreFor(idx))

\* C26: every tuple that search returns holds the text and the metadata
\* given in one add_document call, the one of its id, and the score of the
\* query against the vector stored under that id, which is the vector of
\* that text.
ResultsConsistent ==
    SearchDone =>
        \A j \in DOMAIN last.results :
            LET idx == last.similarities[j][2]
            IN  /\ idx + 1 \in DOMAIN inserted
                /\ last.results[j][1] = inserted[idx + 1].text
                /\ last.results[j][3] = inserted[idx + 1].metadata
                /\ idx \in DOMAIN word_vectors
                /\ word_vectors[idx] = create_word_vector(variant, last.results[j][1])
                /\ last.results[j][2] = scoreFor(idx)

\* The entries of the store before the step are, id by id, entries after it.
EntriesKept ==
    /\ Len(documents') >= Len(documents)
    /\ Len(metadata') >= Len(metadata)
    /\ \A i \in DOMAIN documents : documents'[i] = documents[i]
    /\ \A i \in DOMAIN metadata : metadata'[i] = metadata[i]
    /\ \A id \in DOMAIN word_vectors :
          id \in DOMAIN word_vectors' /\ word_vectors'[id] = word_vectors[id]

\* C27: add_document leaves the text, metadata and vector of every id that
\* was present before the call as they were, search and save change no
\* entry, and the number of documents of a store decreases in a load only.
AppendOnly ==
    [][/\ last'.op \in {"add_document", "search", "save"} => EntriesKept
       /\ Len(documents') < Len(documents) => last'.op \in {"load", "init"}
      ]_vars

\* Thread t is in add_document, has appended its text and has not yet
\* stored its vector.
appendedNotStored(t) ==
    /\ localsOf(t).op = "add_document"
    /\ localsOf(t).pc \in {"append_metadata", "store_vector"}

\* C28: add_document appends to documents, then to metadata, then stores
\* the vector; between the first and the last step documents is longer than
\* the number of vectors, and a search whose loop reaches an id that has no
\* vector fails there with KeyError.
SearchFailsOnMissingVector ==
    /\ [][\A t \in Threads :
            (/\ last.thread[t].pc = "score"
             /\ last'.thread[t] # last.thread[t]
             /\ Len(last.thread[t].scores) < last.thread[t].n
             /\ Len(last.thread[t].scores) \notin DOMAIN word_vectors)
            => last'.thread[t].pc = "KeyError"]_vars
    /\ [](\A t \in Threads :
            /\ appendedNotStored(t) =>
                  Cardinality(DOMAIN word_vectors) < Len(documents)
            /\ (localsOf(t).op = "add_document" /\ localsOf(t).pc = "store_vector") =>
                  Len(metadata) >= 1
            /\ localsOf(t).pc = "KeyError" => localsOf(t).op = "search")

\* A search has failed with KeyError while an add_document call is between
\* its first and its last step.
ReaderMetMissingVector ==
    /\ localsOf("t1").op = "search" /\ localsOf("t1").pc = "KeyError"
    /\ appendedNotStored("t2")
    /\ Len(documents) > Cardinality(DOMAIN word_vectors)

\* C29: the vector is stored under len(documents) - 1 as it is when the
\* vector is stored; while two calls have both appended and neither has
\* stored, that is one id for both, so the keys of word_vectors stay fewer
\* than the documents by the number of such calls at least.
AddsShareLastId ==
    /\ [][\A t \in Threads :
            (last.thread[t].pc = "store_vector" /\ last'.thread[t].pc = "returned")
            => /\ DOMAIN word_vectors' = DOMAIN word_vectors \cup {Len(documents) - 1}
               /\ word_vectors'[Len(documents) - 1] = last.thread[t].vector
               /\ \A id \in DOMAIN word_vectors \ {Len(documents) - 1} :
                     word_vectors'[id] = word_vectors[id]]_vars
    /\ [](Cardinality(DOMAIN word_vectors) + Cardinality({t \in Threads : appendedNotStored(t)})
             <= Len(documents))

\* Two interleaved calls have returned: the first document has no vector
\* and the id of the second holds the vector of the first.
VectorLostAndMisfiled ==
    /\ \A t \in Threads : localsOf(t).op = "add_document" /\ localsOf(t).pc = "returned"
    /\ Len(documents) = 2
    /\ DOMAIN word_vectors = {1}
    /\ word_vectors[1] = create_word_vector(variant, documents[1])
    /\ word_vectors[1] # create_word_vector(variant, documents[2])

\* Document idx shares a token, as its class keeps them, with the query of
\* the last search.
sharesToken(idx) ==
    Range(tokens(variant, last.query)) \cap Range(tokens(variant, documents[idx + 1]))
        # {}

\* C30: the score of a document is 0 exactly when it shares no token with
\* the query, so search ranks every document that shares a token before
\* every document that shares none, wherever they were inserted.
SharedTokenRankedFirst ==
    SearchDone =>
        /\ \A idx \in 0..(Len(documents) - 1) :
              IsZeroScore(scoreFor(idx)) <=> ~ sharesToken(idx)
        /\ \A j \in DOMAIN last.results :
              /\ IsZeroScore(last.results[j][2]) <=> ~ sharesToken(last.similarities[j][2])
              /\ ~ sharesToken(last.similarities[j][2]) =>
                    \A idx \in 0..(Len(documents) - 1) :
                        sharesToken(idx) =>
                            \E i \in 1..(j - 1) : last.similarities[i][2] = idx

\* A document that shares a token with the query has been ranked before a
\* document that shares none and was inserted earlier.
LaterSharingDocumentFirst ==
    /\ SearchDone
    /\ \E i, j \in DOMAIN last.results :
          /\ i < j
          /\ sharesToken(last.similarities[i][2])
          /\ ~ sharesToken(last.similarities[j][2])
          /\ last.similarities[i][2] > last.similarities[j][2]
    /\ \E i, j \in DOMAIN last.results :
          /\ i < j
          /\ sharesToken(last.similarities[i][2])
          /\ ~ sharesToken(last.similarities[j][2])
          /\ last.similarities[i][2] < last.similarities[j][2]

====
